---- MODULE Spec2Model ----
(***************************************************************************)
(* Petrol price forecasting pipeline: deduplicated ingestion into the two  *)
(* raw tables, the ETL stage (extract / merge / clean), feature            *)
(* engineering (lags, rolling mean, target, NaN trim), the model registry  *)
(* and the recursive forecast generator.                                   *)
(*                                                                         *)
(* Money values are integers in hundredths (DECIMAL(10,2) columns); the    *)
(* raw model output and the running forecast state are in thousandths.     *)
(* Calendar dates are day numbers.  SQL NULL / Python None / pandas NaN    *)
(* are the single value None.                                              *)
(***************************************************************************)
EXTENDS Integers, Sequences, FiniteSets, TLC

VARIABLES
    petrol,     \* raw_petrol_prices, rows in insertion (rowid) order
    macro,      \* raw_exogenous_data, rows in insertion (rowid) order
    lastCall,   \* the most recent completed call: operation, arguments, result
    pc,         \* per concurrent ingestion: position in ingest_petrol_price
    sess,       \* per concurrent ingestion: the row pending in its session
    registry,   \* model_registry rows in insertion order
    registered, \* history: the version ids ever inserted into model_registry
    featTable,  \* processed_features rows
    now,        \* the wall-clock day (datetime.now())
    predLog,    \* prediction_logs rows in insertion order
    forecast,   \* the result of the most recent generate_prediction call
    dbDown,     \* the database raises on every query and commit (locked, unreachable)
    wf,         \* per training workflow: position in train_new_model and its values
    files,      \* the model folder: artifact and scaler files by version, with their writer
    saving      \* the session of a save_to_database call in progress

vars ==
    <<petrol, macro, lastCall, pc, sess, registry, registered, featTable, now, predLog, forecast,
      dbDown, wf, files, saving>>

-----------------------------------------------------------------------------
(* Bounds of the model *)

MaxDate == 2        \* dates 1..MaxDate in the small specifications
MaxRows == 3        \* raw rows (both tables together) in the small specifications

MaxDays == 20       \* consecutive daily points in the long-series specification
MaxChanges == 2     \* price changes along the long series

MaxHorizon == 2     \* longest forecast horizon, and model.predict calls in a behaviour
MaxNow == 1         \* the wall clock runs over days 0..MaxNow
MaxLog == 1         \* prediction_logs rows in the forecast specification

MaxStamp == 3       \* created_at stamps, so rows, in the registry specification
MaxVersion == 3     \* highest version number a training run is given

(* SQL NULL, Python None, pandas NaN *)
None == -1

Dates == 1..MaxDate

(* (price, source) pairs offered to ingest_petrol_price: two valid prices with *)
(* different provenance, and a missing price (NaN from a coerced upload cell). *)
PetrolInputs == {<<9500, "web_scraper">>, <<10250, "file_upload">>, <<None, "file_upload">>}

(* (crude_oil_price, inr_usd, source) triples offered to ingest_macro_data *)
MacroInputs == {<<8000, 8300, "yahoo_finance">>, <<None, 8450, "file_upload">>,
                <<0, None, "yahoo_finance">>}

SourceFilters == {"combined", "yahoo_finance", "custom_csv"}

(* (start_date, end_date) arguments of the ETL stage: no range, or a sub-range *)
Ranges == {<<None, None>>, <<2, MaxDate>>}

-----------------------------------------------------------------------------
(* Generic helpers *)

Max(a, b) == IF a >= b THEN a ELSE b
Min(a, b) == IF a <= b THEN a ELSE b

RECURSIVE Flatten(_)
Flatten(ss) == IF ss = <<>> THEN <<>> ELSE Head(ss) \o Flatten(Tail(ss))

RECURSIVE SumSeq(_)
SumSeq(s) == IF s = <<>> THEN 0 ELSE Head(s) + SumSeq(Tail(s))

(* the rows of a table whose date is d: query.filter_by(date=d) *)
RowsFor(table, d) == SelectSeq(table, LAMBDA r : r.date = d)

HasDate(table, d) == RowsFor(table, d) # <<>>

DatesOf(table) == {table[i].date : i \in 1..Len(table)}

(* the record of one completed call *)
Call(op, date, vals, source, range, filter, ok, df) ==
    [op |-> op, date |-> date, vals |-> vals, source |-> source,
     range |-> range, filter |-> filter, ok |-> ok, df |-> df, arg |-> <<>>]

NoCall == Call("none", None, <<>>, "", <<None, None>>, "", FALSE, <<>>)

-----------------------------------------------------------------------------
(* IngestionService: src/scraper/data_ingestion_service.py *)

(* mutant: the existence query also sees rows other sessions have not committed *)
Existing_SeesPending(table, date) ==
    HasDate(table, date) \/ \E p \in DOMAIN pc : pc[p] = "added" /\ sess[p].date = date

(* session.query(Model).filter_by(date=date).first() is truthy *)
Existing(table, date) == HasDate(table, date)

(* mutant: the date column carries no UNIQUE constraint *)
PetrolCommitFails_NoUnique(table, date, price) == price = None

(* The commit of a new raw_petrol_prices row fails (IntegrityError) when the *)
(* NOT NULL price is missing or the UNIQUE date is already present.          *)
PetrolCommitFails(table, date, price) == price = None \/ HasDate(table, date)

(* The commit of a new raw_exogenous_data row fails when the UNIQUE date is  *)
(* already present; both value columns are nullable.                        *)
MacroCommitFails(table, date) == HasDate(table, date)

PetrolRow(date, price, source) ==
    [date |-> date, petrol_price |-> price, source |-> source]

MacroRow(date, crude, inr, source) ==
    [date |-> date, crude_oil_price |-> crude, inr_usd |-> inr, source |-> source]

(* the external triggers that can run an ingestion at the same time *)
Procs == {"scheduled_job", "http_request"}

(* a session with nothing added *)
NoRow == PetrolRow(None, None, "")

(* ingest_petrol_price run to completion with no other session in between *)
IngestPetrolInserted(date, price) ==
    ~Existing(petrol, date) /\ ~PetrolCommitFails(petrol, date, price)

(* mutant: no deduplication, every call appends its row *)
IngestPetrolPrice_NoDedup(date, price, source) ==
    /\ petrol' = Append(petrol, PetrolRow(date, price, source))
    /\ lastCall' = Call("ingest_petrol_price", date, <<price>>, source, <<None, None>>, "",
                        TRUE, <<>>)
    /\ UNCHANGED <<macro, pc, sess, registry, registered, featTable, now, predLog, forecast, dbDown, wf, files, saving>>

(* mutant: a call for a stored date overwrites the stored row (upsert) *)
IngestPetrolPrice_Upsert(date, price, source) ==
    /\ petrol' = IF IngestPetrolInserted(date, price)
                 THEN Append(petrol, PetrolRow(date, price, source))
                 ELSE [i \in 1..Len(petrol) |->
                          IF petrol[i].date = date /\ price # None
                          THEN PetrolRow(date, price, source) ELSE petrol[i]]
    /\ lastCall' = Call("ingest_petrol_price", date, <<price>>, source, <<None, None>>, "",
                        IngestPetrolInserted(date, price), <<>>)
    /\ UNCHANGED <<macro, pc, sess, registry, registered, featTable, now, predLog, forecast, dbDown, wf, files, saving>>

IngestPetrolPrice(date, price, source) ==
    /\ petrol' = IF IngestPetrolInserted(date, price)
                 THEN Append(petrol, PetrolRow(date, price, source))
                 ELSE petrol
    /\ lastCall' = Call("ingest_petrol_price", date, <<price>>, source, <<None, None>>, "",
                        IngestPetrolInserted(date, price), <<>>)
    /\ UNCHANGED <<macro, pc, sess, registry, registered, featTable, now, predLog, forecast, dbDown, wf, files, saving>>

IngestMacroInserted(date) ==
    ~Existing(macro, date) /\ ~MacroCommitFails(macro, date)

IngestMacroData(date, crude, inr, source) ==
    /\ macro' = IF IngestMacroInserted(date)
                THEN Append(macro, MacroRow(date, crude, inr, source))
                ELSE macro
    /\ lastCall' = Call("ingest_macro_data", date, <<crude, inr>>, source, <<None, None>>, "",
                        IngestMacroInserted(date), <<>>)
    /\ UNCHANGED <<petrol, pc, sess, registry, registered, featTable, now, predLog, forecast, dbDown, wf, files, saving>>

(* mutant: the loop stops before end_date *)
RECURSIVE AllDates_ExclusiveEnd(_, _)
AllDates_ExclusiveEnd(current, end_date) ==
    IF current < end_date THEN <<current>> \o AllDates_ExclusiveEnd(current + 1, end_date)
    ELSE <<>>

(* get_missing_dates: `while current <= end_date: all_dates.append(current)` *)
RECURSIVE AllDates(_, _)
AllDates(current, end_date) ==
    IF current <= end_date THEN <<current>> \o AllDates(current + 1, end_date)
    ELSE <<>>

(* the dates of the range that the query (date >= start and date <= end) *)
(* does not return                                                       *)
GetMissingDates(table, start_date, end_date) ==
    LET existing_dates_set == {d \in DatesOf(table) : d >= start_date /\ d <= end_date}
    IN  SelectSeq(AllDates(start_date, end_date), LAMBDA d : d \notin existing_dates_set)

GetMissingDatesCall(table_model, start_date, end_date) ==
    /\ lastCall' = Call("get_missing_dates", None,
                        GetMissingDates(IF table_model = "petrol" THEN petrol ELSE macro,
                                        start_date, end_date),
                        table_model, <<start_date, end_date>>, "", TRUE, <<>>)
    /\ UNCHANGED <<petrol, macro, pc, sess, registry, registered, featTable, now, predLog, forecast, dbDown, wf, files, saving>>

(* ingest_from_dataframe: every row goes through ingest_petrol_price or *)
(* ingest_macro_data, each in a session of its own; a True result counts *)
(* as inserted and a False result as a duplicate.  The result is         *)
(* <<table, inserted_count, duplicate_count>>                            *)
RECURSIVE PetrolBatch(_, _, _, _)
PetrolBatch(table, df, inserted, duplicates) ==
    IF df = <<>> THEN <<table, inserted, duplicates>>
    ELSE LET row == Head(df)
             ok  == ~Existing(table, row.date)
                    /\ ~PetrolCommitFails(table, row.date, row.petrol_price)
         IN  IF ok
             THEN PetrolBatch(Append(table, PetrolRow(row.date, row.petrol_price, row.source)),
                              Tail(df), inserted + 1, duplicates)
             ELSE PetrolBatch(table, Tail(df), inserted, duplicates + 1)

RECURSIVE MacroBatch(_, _, _, _)
MacroBatch(table, df, inserted, duplicates) ==
    IF df = <<>> THEN <<table, inserted, duplicates>>
    ELSE LET row == Head(df)
             ok  == ~Existing(table, row.date) /\ ~MacroCommitFails(table, row.date)
         IN  IF ok
             THEN MacroBatch(Append(table, MacroRow(row.date, row.crude_oil_price, row.inr_usd,
                                                    row.source)),
                             Tail(df), inserted + 1, duplicates)
             ELSE MacroBatch(table, Tail(df), inserted, duplicates + 1)

(* a data_type other than 'petrol' and 'macro' runs neither loop *)
IngestFromDataframe(df, data_type) ==
    LET p == IF data_type = "petrol" THEN PetrolBatch(petrol, df, 0, 0) ELSE <<petrol, 0, 0>>
        m == IF data_type = "macro" THEN MacroBatch(macro, df, 0, 0) ELSE <<macro, 0, 0>>
    IN  /\ petrol' = p[1]
        /\ macro' = m[1]
        /\ lastCall' = [Call("ingest_from_dataframe", Len(df), <<p[2] + m[2], p[3] + m[3]>>,
                             data_type, <<None, None>>, "", TRUE, <<>>) EXCEPT !.arg = df]
        /\ UNCHANGED <<pc, sess, registry, registered, featTable, now, predLog, forecast, dbDown, wf, files, saving>>

-----------------------------------------------------------------------------
(* ETLPipeline: src/ml_pipeline/preprocess.py *)

(* `if start_date and end_date` then date >= start and date <= end *)
InRange(d, range) ==
    (range[1] # None /\ range[2] # None) => (d >= range[1] /\ d <= range[2])

UploadSources == {"file_upload", "manual", "csv_upload"}

MatchesSource(source, filter) ==
    CASE filter = "yahoo_finance" -> source = "yahoo_finance"
      [] filter = "custom_csv"    -> source \in UploadSources
      [] OTHER                    -> TRUE

(* `float(x) if x else None` of the to_dict methods: NULL and zero both give None *)
FloatOrNone(x) == IF x = None \/ x = 0 THEN None ELSE x

(* RawPetrolPrice.to_dict, the columns the merge keeps *)
PetrolToDict(r) ==
    [date |-> r.date, petrol_price |-> r.petrol_price, source |-> r.source]

(* RawExogenousData.to_dict, the columns the merge keeps *)
MacroToDict(r) ==
    [date |-> r.date, crude_oil_price |-> FloatOrNone(r.crude_oil_price),
     inr_usd |-> FloatOrNone(r.inr_usd)]

MergedRow(p, crude, inr) ==
    [date |-> p.date, petrol_price |-> p.petrol_price, source |-> p.source,
     crude_oil_price |-> crude, inr_usd |-> inr]

(* pd.merge(left, right, on='date', how='left') *)
LeftMerge(left, right) ==
    Flatten([i \in 1..Len(left) |->
        LET m == RowsFor(right, left[i].date)
        IN  IF m = <<>>
            THEN <<MergedRow(left[i], None, None)>>
            ELSE [j \in 1..Len(m) |-> MergedRow(left[i], m[j].crude_oil_price, m[j].inr_usd)]])

ExtractRawData(range, filter) ==
    LET keepP(r) == InRange(r.date, range) /\ MatchesSource(r.source, filter)
        keepM(r) == InRange(r.date, range) /\ MatchesSource(r.source, filter)
        petrol_rows == SelectSeq(petrol, keepP)
        macro_rows == SelectSeq(macro, keepM)
        petrol_df == [i \in 1..Len(petrol_rows) |-> PetrolToDict(petrol_rows[i])]
        macro_df  == [i \in 1..Len(macro_rows) |-> MacroToDict(macro_rows[i])]
    IN  IF petrol_df = <<>> THEN <<>>
        ELSE IF macro_df # <<>> THEN LeftMerge(petrol_df, macro_df)
        ELSE [i \in 1..Len(petrol_df) |-> MergedRow(petrol_df[i], None, None)]

(* df.drop_duplicates(subset=['date'], keep='first') *)
RemoveDuplicates(df) ==
    LET first(i) == \A j \in 1..(i - 1) : df[j].date # df[i].date
        idx == {i \in 1..Len(df) : first(i)}
        RECURSIVE pick(_)
        pick(i) == IF i > Len(df) THEN <<>>
                   ELSE (IF i \in idx THEN <<df[i]>> ELSE <<>>) \o pick(i + 1)
    IN  pick(1)

(* df.sort_values('date').reset_index(drop=True): stable insertion sort *)
RECURSIVE InsertByDate(_, _)
InsertByDate(sorted, r) ==
    IF sorted = <<>> THEN <<r>>
    ELSE IF sorted[Len(sorted)].date <= r.date THEN Append(sorted, r)
    ELSE Append(InsertByDate(SubSeq(sorted, 1, Len(sorted) - 1), r), sorted[Len(sorted)])

RECURSIVE SortByDate(_)
SortByDate(df) ==
    IF df = <<>> THEN <<>>
    ELSE InsertByDate(SortByDate(SubSeq(df, 1, Len(df) - 1)), df[Len(df)])

StandardizeDates(df) == SortByDate(df)

(* mutant: backward fill, the nearest value below *)
RECURSIVE FfillCell_Backward(_, _, _)
FfillCell_Backward(df, i, col) ==
    IF i > Len(df) THEN None
    ELSE IF df[i][col] # None THEN df[i][col]
    ELSE FfillCell_Backward(df, i + 1, col)

(* one column cell after df.fillna(method='ffill'): the nearest value above *)
RECURSIVE FfillCell(_, _, _)
FfillCell(df, i, col) ==
    IF i = 0 THEN None
    ELSE IF df[i][col] # None THEN df[i][col]
    ELSE FfillCell(df, i - 1, col)

HandleMissingValues(df) ==
    [i \in 1..Len(df) |->
        [date |-> df[i].date,
         petrol_price |-> FfillCell(df, i, "petrol_price"),
         source |-> df[i].source,
         crude_oil_price |-> FfillCell(df, i, "crude_oil_price"),
         inr_usd |-> FfillCell(df, i, "inr_usd")]]

(* run_etl with remove_outliers=False, as every caller in the repository runs it *)
RunEtlResult(range, filter) ==
    LET df == ExtractRawData(range, filter)
    IN  IF df = <<>> THEN <<>>
        ELSE HandleMissingValues(StandardizeDates(RemoveDuplicates(df)))

(* the transform stage of run_etl on a frame *)
Transform(df) == HandleMissingValues(StandardizeDates(RemoveDuplicates(df)))

TransformCall(df) ==
    /\ lastCall' = [Call("transform", None, <<>>, "", <<None, None>>, "", TRUE, Transform(df))
                      EXCEPT !.arg = df]
    /\ UNCHANGED <<petrol, macro, pc, sess, registry, registered, featTable, now, predLog, forecast, dbDown, wf, files, saving>>

ExtractRawDataCall(range, filter) ==
    /\ lastCall' = Call("extract_raw_data", None, <<>>, "", range, filter, TRUE,
                        ExtractRawData(range, filter))
    /\ UNCHANGED <<petrol, macro, pc, sess, registry, registered, featTable, now, predLog, forecast, dbDown, wf, files, saving>>

RunEtl(range, filter) ==
    /\ lastCall' = Call("run_etl", None, <<>>, "", range, filter, TRUE,
                        RunEtlResult(range, filter))
    /\ UNCHANGED <<petrol, macro, pc, sess, registry, registered, featTable, now, predLog, forecast, dbDown, wf, files, saving>>

-----------------------------------------------------------------------------
(* FeatureEngineer: src/ml_pipeline/feature_engineering.py *)

(* ModelConfig.LAG_FEATURES and ModelConfig.ROLLING_WINDOWS *)
LagFeatures == {1, 2, 7, 14}
RollingWindow == 7

(* df[column].shift(k) at row i: the value k rows back (k < 0: ahead), NaN outside *)
Shift(df, i, k) ==
    IF i - k >= 1 /\ i - k <= Len(df) THEN df[i - k].petrol_price ELSE None

(* mutant: the window ends one row before row i *)
RollingMean_Exclusive(df, i, window) ==
    IF i <= window \/ \E j \in (i - window)..(i - 1) : df[j].petrol_price = None
    THEN None
    ELSE SumSeq([j \in 1..window |-> df[i - window + j - 1].petrol_price])

(* df[column].rolling(window).mean() at row i, kept exact as the window sum: *)
(* the mean is this value divided by the window.  NaN until the window is    *)
(* full and while it holds a NaN.                                            *)
RollingMean(df, i, window) ==
    IF i < window \/ \E j \in (i - window + 1)..i : df[j].petrol_price = None
    THEN None
    ELSE SumSeq([j \in 1..window |-> df[i - window + j].petrol_price])

(* the columns added by create_lag_features, create_rolling_features and *)
(* create_target_variable                                                *)
AddFeatures(df) ==
    [i \in 1..Len(df) |->
        [date |-> df[i].date, petrol_price |-> df[i].petrol_price, source |-> df[i].source,
         crude_oil_price |-> df[i].crude_oil_price, inr_usd |-> df[i].inr_usd,
         lag_1 |-> Shift(df, i, 1), lag_2 |-> Shift(df, i, 2),
         lag_7 |-> Shift(df, i, 7), lag_14 |-> Shift(df, i, 14),
         rolling_7 |-> RollingMean(df, i, RollingWindow),
         target |-> Shift(df, i, -1)]]

NumericColumns ==
    {"petrol_price", "crude_oil_price", "inr_usd", "lag_1", "lag_2", "lag_7", "lag_14",
     "rolling_7", "target"}

(* mutant: the NaN of the target column does not drop a row *)
DropNa_IgnoreTarget(df) ==
    SelectSeq(df, LAMBDA r : \A c \in NumericColumns \ {"target"} : r[c] # None)

(* df.dropna(): a row goes when any of its cells is NaN / None (the source *)
(* tag of a stored row is never null in this model)                         *)
DropNa(df) == SelectSeq(df, LAMBDA r : \A c \in NumericColumns : r[c] # None)

(* create_all_features; sorting a frame without columns raises and the *)
(* except branch hands the empty frame back                             *)
CreateAllFeatures(df) ==
    IF df = <<>> THEN <<>> ELSE DropNa(AddFeatures(SortByDate(df)))

CreateAllFeaturesCall ==
    /\ lastCall.op = "run_etl"
    /\ lastCall' = [Call("create_all_features", None, <<>>, "", <<None, None>>, "", TRUE,
                         CreateAllFeatures(lastCall.df)) EXCEPT !.arg = lastCall.df]
    /\ UNCHANGED <<petrol, macro, pc, sess, registry, registered, featTable, now, predLog, forecast, dbDown, wf, files, saving>>

-----------------------------------------------------------------------------
(* Feature table: FeatureEngineer.save_to_database *)

(* a / b rounded to the nearest integer, a >= 0: the float mean stored in a *)
(* DECIMAL(10,2) column                                                     *)
RoundDiv(a, b) == (2 * a + b) \div (2 * b)

(* the ProcessedFeature columns written for one row of the frame; rolling_7 *)
(* arrives as the window sum and is stored as the mean                      *)
FeatureRecord(row) ==
    [date |-> row.date, petrol_price |-> row.petrol_price,
     lag_1 |-> row.lag_1, lag_2 |-> row.lag_2, lag_7 |-> row.lag_7, lag_14 |-> row.lag_14,
     rolling_7 |-> IF row.rolling_7 = None THEN None
                   ELSE RoundDiv(row.rolling_7, RollingWindow),
     crude_oil_price |-> row.crude_oil_price, inr_usd |-> row.inr_usd,
     target |-> row.target]

(* the loop of save_to_database.  The session has autoflush off          *)
(* (src/db/database.py), so the existence query sees the stored rows and *)
(* not the rows this call has added: a stored row is updated in place, a *)
(* row for any other date is added                                       *)
RECURSIVE UpsertLoop(_, _, _)
UpsertLoop(table, added, df) ==
    IF df = <<>> THEN <<table, added>>
    ELSE LET rec == FeatureRecord(Head(df))
         IN  IF HasDate(table, rec.date)
             THEN UpsertLoop([i \in 1..Len(table) |->
                                 IF table[i].date = rec.date THEN rec ELSE table[i]],
                             added, Tail(df))
             ELSE UpsertLoop(table, Append(added, rec), Tail(df))

Upsert(table, df) == UpsertLoop(table, <<>>, df)[1] \o UpsertLoop(table, <<>>, df)[2]

(* the commit fails on a NaN price (petrol_price is NOT NULL) and on two *)
(* added rows with one date (date is the primary key): everything is     *)
(* rolled back and 0 is returned                                         *)
SaveFails(df) ==
    LET added == UpsertLoop(featTable, <<>>, df)[2]
    IN  \/ \E i \in 1..Len(df) : df[i].petrol_price = None
        \/ \E i, j \in 1..Len(added) : i # j /\ added[i].date = added[j].date

SaveToDatabase(df) ==
    /\ featTable' = IF SaveFails(df) THEN featTable ELSE Upsert(featTable, df)
    /\ lastCall' = [Call("save_to_database", IF SaveFails(df) THEN 0 ELSE Len(df), <<>>, "",
                         <<None, None>>, "", ~SaveFails(df), <<>>) EXCEPT !.arg = df]
    /\ UNCHANGED <<petrol, macro, pc, sess, registry, registered, now, predLog, forecast, dbDown, wf, files, saving>>

(* save_to_database step by step: the loop fills the session, the exit of *)
(* get_db_session commits it.  view holds the stored rows as the session  *)
(* has changed them in memory, added the new objects; before is a history *)
(* field, the table when the call began                                   *)
NoSaving == [phase |-> "idle", df |-> <<>>, pos |-> 0, view |-> <<>>, added |-> <<>>,
             before |-> <<>>]

BeginSave(df) ==
    /\ saving.phase = "idle"
    /\ saving' = [phase |-> "loop", df |-> df, pos |-> 1, view |-> featTable, added |-> <<>>,
                  before |-> featTable]
    /\ UNCHANGED <<petrol, macro, lastCall, pc, sess, registry, registered, featTable, now, predLog, forecast, dbDown, wf, files>>

(* mutant: every row is written to the table as soon as the loop has handled it *)
SeenByOthers_Flushed(table, view, added) == view \o added

(* the rows other sessions read while this session is open: autoflush is *)
(* off and nothing is committed before the loop ends                     *)
SeenByOthers(table, view, added) == table

(* one iteration of the loop *)
SaveRow ==
    LET step == UpsertLoop(saving.view, saving.added, <<saving.df[saving.pos]>>)
    IN  /\ saving.phase = "loop"
        /\ saving.pos <= Len(saving.df)
        /\ saving' = [saving EXCEPT !.pos = saving.pos + 1, !.view = step[1], !.added = step[2]]
        /\ featTable' = SeenByOthers(featTable, step[1], step[2])
        /\ UNCHANGED <<petrol, macro, lastCall, pc, sess, registry, registered, now, predLog, forecast, dbDown, wf, files>>

(* the flush at commit fails on a NaN price and on two added rows with one date *)
CommitFails(view, added) ==
    \/ \E i \in 1..Len(view) : view[i].petrol_price = None
    \/ \E i \in 1..Len(added) : added[i].petrol_price = None
    \/ \E i, j \in 1..Len(added) : i # j /\ added[i].date = added[j].date

(* the exit of the with block: commit, or rollback and `return 0` *)
CommitSave ==
    LET fails == CommitFails(saving.view, saving.added)
    IN  /\ saving.phase = "loop"
        /\ saving.pos > Len(saving.df)
        /\ featTable' = IF fails THEN featTable ELSE saving.view \o saving.added
        /\ lastCall' = Call("save_to_database", IF fails THEN 0 ELSE Len(saving.df), <<>>, "",
                            <<None, None>>, "", ~fails, <<>>)
        /\ saving' = NoSaving
        /\ UNCHANGED <<petrol, macro, pc, sess, registry, registered, now, predLog, forecast, dbDown, wf, files>>

(* load_from_database without a date range, by another session *)
LoadFromDatabase ==
    /\ lastCall' = Call("load_from_database", None, <<>>, "", <<None, None>>, "", TRUE,
                        SortByDate(featTable))
    /\ UNCHANGED <<petrol, macro, pc, sess, registry, registered, featTable, now, predLog, forecast, dbDown, wf, files, saving>>

(* prepare_data of src/backend/routes/prepare_routes.py: the ETL stage    *)
(* with the request's data_source, feature engineering, save_features;   *)
(* the count save_features returns is reported and not checked           *)
PrepareData(data_source) ==
    LET cleaned_df == RunEtlResult(<<None, None>>, data_source)
        features_df == CreateAllFeatures(cleaned_df)
        empty == cleaned_df = <<>> \/ features_df = <<>>
        saved == ~empty /\ ~SaveFails(features_df)
    IN  /\ featTable' = IF saved THEN Upsert(featTable, features_df) ELSE featTable
        /\ lastCall' = [Call("prepare_data", IF empty THEN 400 ELSE 200,
                             <<IF saved THEN Len(features_df) ELSE 0>>, "", <<None, None>>,
                             data_source, ~empty, features_df) EXCEPT !.arg = saved]
        /\ UNCHANGED <<petrol, macro, pc, sess, registry, registered, now, predLog, forecast, dbDown, wf, files, saving>>

-----------------------------------------------------------------------------
(* ModelRegistry: register_model of src/ml_pipeline/model_registry.py *)

HasVersion(reg, v) == \E i \in 1..Len(reg) : reg[i].model_version = v

(* created_at (server_default now()) grows with every insertion *)
NextStamp(reg) ==
    IF reg = <<>> THEN 1
    ELSE 1 + (CHOOSE t \in {reg[i].created_at : i \in 1..Len(reg)} :
                 \A i \in 1..Len(reg) : reg[i].created_at <= t)

(* loadable: the artifact file and its scaler sidecar exist at model_path; *)
(* the artifact path is named after the version                            *)
RegisterRows(reg, version, model_path, metrics, training_samples, data_source, loadable) ==
    IF HasVersion(reg, version) THEN reg
    ELSE Append(reg, [model_version |-> version, rmse |-> metrics.rmse, mae |-> metrics.mae,
                      mape |-> metrics.mape, r2 |-> metrics.r2, loadable |-> loadable,
                      created_at |-> NextStamp(reg), model_path |-> model_path,
                      training_samples |-> training_samples, data_source |-> data_source])

RegisterModelRow(version, model_path, metrics, training_samples, data_source, loadable) ==
    /\ registry' = RegisterRows(registry, version, model_path, metrics, training_samples,
                                data_source, loadable)
    /\ registered' = registered \cup {version}
    /\ lastCall' = Call("register_model", None, <<>>, version, <<None, None>>, "",
                        ~HasVersion(registry, version), <<>>)
    /\ UNCHANGED <<petrol, macro, pc, sess, featTable, now, predLog, forecast, dbDown, wf, files, saving>>

(* register_model with one value for every metric, the artifact named after *)
(* the version, no sample count and the default data_source                *)
RegisterModel(version, rmse, loadable) ==
    RegisterModelRow(version, version, [rmse |-> rmse, mae |-> rmse, mape |-> rmse, r2 |-> rmse],
                     None, "combined", loadable)

-----------------------------------------------------------------------------
(* ModelRegistryManager of src/ml_pipeline/model_registry.py, and          *)
(* ModelEvaluator.save_metrics_to_database of src/ml_pipeline/evaluate.py *)

(* the characters of a version id *)
Chars(version) ==
    CASE version = "v1" -> <<"v", "1">>
      [] version = "v2" -> <<"v", "2">>
      [] version = "v3" -> <<"v", "3">>
      [] version = "v4" -> <<"v", "4">>
      [] version = "v5" -> <<"v", "5">>
      [] version = "best" -> <<"b", "e", "s", "t">>
      [] OTHER -> <<>>

(* str.replace(old, ''): every occurrence of the character is removed *)
Replace(chars, old) == SelectSeq(chars, LAMBDA c : c # old)

DigitChars == <<"0", "1", "2", "3", "4", "5", "6", "7", "8", "9">>

IsDigit(c) == \E d \in 1..10 : DigitChars[d] = c

DigitValue(c) == (CHOOSE d \in 1..10 : DigitChars[d] = c) - 1

(* int(text) succeeds on a non-empty run of decimal digits *)
IsInt(chars) == chars # <<>> /\ \A i \in 1..Len(chars) : IsDigit(chars[i])

RECURSIVE ParseInt(_)
ParseInt(chars) ==
    IF chars = <<>> THEN 0
    ELSE 10 * ParseInt(SubSeq(chars, 1, Len(chars) - 1)) + DigitValue(chars[Len(chars)])

(* the numbers of the versions that parse; the others are skipped *)
VersionNumbers(reg) ==
    {ParseInt(Replace(Chars(reg[i].model_version), "v")) :
        i \in {j \in 1..Len(reg) : IsInt(Replace(Chars(reg[j].model_version), "v"))}}

(* max(version_numbers) *)
MaxOf(S) == CHOOSE m \in S : \A n \in S : n <= m

GetNextVersion(reg) ==
    IF VersionNumbers(reg) = {} THEN "v1"
    ELSE "v" \o ToString(MaxOf(VersionNumbers(reg)) + 1)

GetNextVersionCall ==
    /\ lastCall' = Call("get_next_version", None, <<>>, GetNextVersion(registry), <<None, None>>,
                        "", TRUE, <<>>)
    /\ UNCHANGED <<petrol, macro, pc, sess, registry, registered, featTable, now, predLog, forecast, dbDown, wf, files, saving>>

DeleteModel(model_version) ==
    /\ registry' = SelectSeq(registry, LAMBDA r : r.model_version # model_version)
    /\ lastCall' = Call("delete_model", None, <<>>, model_version, <<None, None>>, "",
                        HasVersion(registry, model_version), <<>>)
    /\ UNCHANGED <<petrol, macro, pc, sess, registered, featTable, now, predLog, forecast, dbDown, wf, files, saving>>

(* save_metrics_to_database: the row of the version is overwritten in place, *)
(* or a new row is added; the trainer wrote the artifact before evaluation  *)
SaveMetrics_AlwaysInsert(reg, model_version, metrics, model_path, training_samples) ==
    Append(reg, [model_version |-> model_version, rmse |-> metrics.rmse, mae |-> metrics.mae,
                 mape |-> metrics.mape, r2 |-> metrics.r2, loadable |-> TRUE,
                 created_at |-> NextStamp(reg), model_path |-> model_path,
                 training_samples |-> training_samples, data_source |-> "combined"])

SaveMetrics(reg, model_version, metrics, model_path, training_samples) ==
    IF HasVersion(reg, model_version)
    THEN [i \in 1..Len(reg) |->
            IF reg[i].model_version = model_version
            THEN [reg[i] EXCEPT !.rmse = metrics.rmse, !.mae = metrics.mae, !.mape = metrics.mape,
                                !.r2 = metrics.r2, !.model_path = model_path,
                                !.training_samples = training_samples, !.loadable = TRUE]
            ELSE reg[i]]
    ELSE Append(reg, [model_version |-> model_version, rmse |-> metrics.rmse, mae |-> metrics.mae,
                      mape |-> metrics.mape, r2 |-> metrics.r2, loadable |-> TRUE,
                      created_at |-> NextStamp(reg), model_path |-> model_path,
                      training_samples |-> training_samples, data_source |-> "combined"])

SaveMetricsToDatabase(model_version, metrics, model_path, training_samples) ==
    /\ registry' = SaveMetrics(registry, model_version, metrics, model_path, training_samples)
    /\ registered' = registered \cup {model_version}
    /\ lastCall' = [Call("save_metrics_to_database", training_samples, <<>>, model_version,
                         <<None, None>>, model_path, TRUE, <<>>) EXCEPT !.arg = metrics]
    /\ UNCHANGED <<petrol, macro, pc, sess, featTable, now, predLog, forecast, dbDown, wf, files, saving>>

(* ModelRegistry.to_dict of src/db/models.py *)
ModelToDict(r) ==
    [model_version |-> r.model_version, rmse |-> FloatOrNone(r.rmse), mae |-> FloatOrNone(r.mae),
     mape |-> FloatOrNone(r.mape), r2 |-> FloatOrNone(r.r2), model_path |-> r.model_path,
     training_samples |-> r.training_samples, data_source |-> r.data_source,
     created_at |-> r.created_at]

MetricNames == {"rmse", "mae", "mape"}

MetricOf(r, metric) ==
    CASE metric = "rmse" -> r.rmse
      [] metric = "mae" -> r.mae
      [] metric = "mape" -> r.mape

(* order_by(<metric>.asc()).first(): the rows the database can return.  NULL *)
(* sorts before every value on SQLite and MySQL and after every value on    *)
(* PostgreSQL (DB_TYPE of src/config.py); rows with equal keys come in any  *)
(* order                                                                    *)
FirstRows(reg, metric, nulls_first) ==
    LET nulls == {i \in 1..Len(reg) : MetricOf(reg[i], metric) = None}
        vals  == (1..Len(reg)) \ nulls
        least == {i \in vals : \A j \in vals : MetricOf(reg[i], metric) <= MetricOf(reg[j], metric)}
    IN  IF nulls_first
        THEN IF nulls # {} THEN nulls ELSE least
        ELSE IF vals # {} THEN least ELSE nulls

(* get_best_model: None (the empty sequence) for an unknown metric and for *)
(* an empty registry, else the dict of the first row                       *)
GetBestModel(metric, first) ==
    IF metric \notin MetricNames THEN <<>>
    ELSE IF first = 0 THEN <<>>
    ELSE <<ModelToDict(registry[first])>>

(* the rows first() can see for the metric; 0 stands for no row *)
FirstChoices(metric, nulls_first) ==
    IF metric \in MetricNames /\ registry # <<>> THEN FirstRows(registry, metric, nulls_first)
    ELSE {0}

(* get_best_metrics of src/backend/routes/training_routes.py: the status, *)
(* the message and the success flag of the response                       *)
BestResponse(model) ==
    IF model # <<>> THEN [status |-> 200, message |-> "", success |-> TRUE]
    ELSE [status |-> 404, message |-> "No models found", success |-> FALSE]

GetBestMetrics(metric) ==
    /\ \E nulls_first \in BOOLEAN : \E first \in FirstChoices(metric, nulls_first) :
          LET model == GetBestModel(metric, first)
              resp  == BestResponse(model)
          IN  lastCall' = Call("get_best_metrics", resp.status, <<>>, resp.message, <<None, None>>,
                               metric, resp.success, model)
    /\ UNCHANGED <<petrol, macro, pc, sess, registry, registered, featTable, now, predLog, forecast, dbDown, wf, files, saving>>

-----------------------------------------------------------------------------
(* The operations while the database raises.  get_db_session of            *)
(* src/db/database.py rolls the session back and re-raises; the except     *)
(* branch of each operation logs the error and returns the value below     *)

(* ingest_petrol_price: `except Exception: return False` *)
IngestPetrolPriceDb(date, price, source) ==
    IF dbDown
    THEN /\ lastCall' = Call("ingest_petrol_price", date, <<price>>, source, <<None, None>>, "",
                             FALSE, <<>>)
         /\ UNCHANGED <<petrol, macro, pc, sess, registry, registered, featTable, now, predLog, forecast, dbDown, wf, files, saving>>
    ELSE IngestPetrolPrice(date, price, source)

(* ingest_macro_data: `except Exception: return False` *)
IngestMacroDataDb(date, crude, inr, source) ==
    IF dbDown
    THEN /\ lastCall' = Call("ingest_macro_data", date, <<crude, inr>>, source, <<None, None>>,
                             "", FALSE, <<>>)
         /\ UNCHANGED <<petrol, macro, pc, sess, registry, registered, featTable, now, predLog, forecast, dbDown, wf, files, saving>>
    ELSE IngestMacroData(date, crude, inr, source)

(* extract_raw_data: `except Exception: return pd.DataFrame()`, which run_etl *)
(* returns as it is (`if df.empty: return df`)                               *)
RunEtlDb(range, filter) ==
    IF dbDown
    THEN /\ lastCall' = Call("run_etl", None, <<>>, "", range, filter, TRUE, <<>>)
         /\ UNCHANGED <<petrol, macro, pc, sess, registry, registered, featTable, now, predLog, forecast, dbDown, wf, files, saving>>
    ELSE RunEtl(range, filter)

(* save_to_database: `except Exception: return 0` *)
SaveToDatabaseDb(df) ==
    IF dbDown
    THEN /\ lastCall' = [Call("save_to_database", 0, <<>>, "", <<None, None>>, "", FALSE, <<>>)
                           EXCEPT !.arg = df]
         /\ UNCHANGED <<petrol, macro, pc, sess, registry, registered, featTable, now, predLog, forecast, dbDown, wf, files, saving>>
    ELSE SaveToDatabase(df)

(* get_next_version: `except Exception: return 'v1'` *)
GetNextVersionDb ==
    IF dbDown
    THEN /\ lastCall' = Call("get_next_version", None, <<>>, "v1", <<None, None>>, "", TRUE, <<>>)
         /\ UNCHANGED <<petrol, macro, pc, sess, registry, registered, featTable, now, predLog, forecast, dbDown, wf, files, saving>>
    ELSE GetNextVersionCall

(* get_best_model: `except Exception: return None`, answered by the route *)
(* like a registry without rows                                          *)
GetBestMetricsDb(metric) ==
    IF dbDown
    THEN /\ lastCall' = Call("get_best_metrics", BestResponse(<<>>).status, <<>>,
                             BestResponse(<<>>).message, <<None, None>>, metric,
                             BestResponse(<<>>).success, <<>>)
         /\ UNCHANGED <<petrol, macro, pc, sess, registry, registered, featTable, now, predLog, forecast, dbDown, wf, files, saving>>
    ELSE GetBestMetrics(metric)

(* save_metrics_to_database: `except Exception: return False` *)
SaveMetricsToDatabaseDb(model_version, metrics, model_path, training_samples) ==
    IF dbDown
    THEN /\ lastCall' = [Call("save_metrics_to_database", training_samples, <<>>, model_version,
                              <<None, None>>, model_path, FALSE, <<>>) EXCEPT !.arg = metrics]
         /\ UNCHANGED <<petrol, macro, pc, sess, registry, registered, featTable, now, predLog, forecast, dbDown, wf, files, saving>>
    ELSE SaveMetricsToDatabase(model_version, metrics, model_path, training_samples)

(* the database becomes unavailable, or available again *)
DbOutage ==
    /\ dbDown' = ~dbDown
    /\ UNCHANGED <<petrol, macro, lastCall, pc, sess, registry, registered, featTable, now, predLog, forecast, wf, files, saving>>

-----------------------------------------------------------------------------
(* ForecastEngine: src/ml_pipeline/predict.py and the prediction service *)

(* an end_date string that strptime('%Y-%m-%d') rejects *)
BadDate == -2

(* the clamp band of generate_forecast and the seed defaults, in thousandths *)
BandLow == 90000
BandHigh == 150000
DefaultCrude == 80000
DefaultInr == 83000

NaN == None

(* Python's min(a, b) and max(a, b): the first argument unless the second *)
(* compares smaller / larger; a NaN compares false                         *)
PyMin(a, b) == IF b # NaN /\ b < a THEN b ELSE a
PyMax(a, b) == IF b # NaN /\ b > a THEN b ELSE a

(* mutant: the upper bound of the band is not applied *)
Clamp_LowerOnly(raw) == PyMax(BandLow, raw)

(* pred = max(90.0, min(150.0, float(pred))) *)
Clamp(raw) == PyMax(BandLow, PyMin(BandHigh, raw))

(* round(pred, 2): thousandths to hundredths (no value of the model is a tie) *)
Round2(x) == (x + 5) \div 10

(* no model_version in the request: `if model_version:` is false *)
NoVersion == ""

(* mutant: an unregistered version falls back to the whole registry *)
ModelRecords_Fallback(model_version) ==
    IF model_version # NoVersion /\ HasVersion(registry, model_version)
    THEN {i \in 1..Len(registry) : registry[i].model_version = model_version}
    ELSE 1..Len(registry)

(* the registry rows load_model_and_scaler can pick: the row of the version, *)
(* or a row with the greatest created_at when no version is given            *)
ModelRecords(model_version) ==
    IF model_version # NoVersion
    THEN {i \in 1..Len(registry) : registry[i].model_version = model_version}
    ELSE {i \in 1..Len(registry) :
            \A j \in 1..Len(registry) : registry[j].created_at <= registry[i].created_at}

(* get_latest_features: the row with the greatest date, through to_dict *)
LatestFeatures ==
    LET i == CHOOSE i \in 1..Len(featTable) :
                 \A j \in 1..Len(featTable) : featTable[j].date <= featTable[i].date
        r == featTable[i]
    IN  [petrol_price |-> r.petrol_price,
         lag_1 |-> FloatOrNone(r.lag_1), lag_2 |-> FloatOrNone(r.lag_2),
         lag_7 |-> FloatOrNone(r.lag_7), lag_14 |-> FloatOrNone(r.lag_14),
         rolling_7 |-> FloatOrNone(r.rolling_7),
         crude_oil_price |-> FloatOrNone(r.crude_oil_price),
         inr_usd |-> FloatOrNone(r.inr_usd)]

(* `x if x else default`, hundredths to thousandths *)
OrElse(x, default) == IF x = None \/ x = 0 THEN default ELSE 10 * x

(* current_features; rolling_7 is kept as an exact fraction *)
SeedFeatures(latest) ==
    [petrol_price |-> 10 * latest.petrol_price,
     lag_1 |-> OrElse(latest.lag_1, 10 * latest.petrol_price),
     lag_2 |-> OrElse(latest.lag_2, 10 * latest.petrol_price),
     lag_7 |-> OrElse(latest.lag_7, 10 * latest.petrol_price),
     lag_14 |-> OrElse(latest.lag_14, 10 * latest.petrol_price),
     rolling_7 |-> [num |-> OrElse(latest.rolling_7, 10 * latest.petrol_price), den |-> 1],
     crude_oil_price |-> OrElse(latest.crude_oil_price, DefaultCrude),
     inr_usd |-> OrElse(latest.inr_usd, DefaultInr)]

NoFeatures ==
    [petrol_price |-> None, lag_1 |-> None, lag_2 |-> None, lag_7 |-> None, lag_14 |-> None,
     rolling_7 |-> [num |-> None, den |-> 1], crude_oil_price |-> None, inr_usd |-> None]

(* mutant: the day count from tomorrow to end_date without the inclusive day *)
HorizonFromEndDate_Exclusive(end_date, current_date) == end_date - current_date

(* delta = target_date - current_date; horizon_days = delta.days + 1 *)
HorizonFromEndDate(end_date, current_date) == (end_date - current_date) + 1

(* the state of one generate_prediction call *)
Frame(phase, args, version, metrics, horizon, current_date, day, features, preds, ok, error) ==
    [phase |-> phase, args |-> args, model_version |-> version, metrics |-> metrics,
     horizon_days |-> horizon, current_date |-> current_date, day |-> day,
     features |-> features, predictions |-> preds, success |-> ok,
     error |-> error, x |-> <<>>]

Failure(args, current_date, error) ==
    Frame("done", args, "", None, args.horizon_days, current_date, 0, NoFeatures, <<>>,
          FALSE, error)

IdleFrame ==
    Frame("idle", [horizon_days |-> 0, model_version |-> NoVersion, end_date |-> None], "", None,
          0, None, 0, NoFeatures, <<>>, FALSE, "")

(* generate_prediction up to the first pass of the loop of generate_forecast *)
StartForecast(horizon_days, model_version, end_date) ==
    LET args == [horizon_days |-> horizon_days, model_version |-> model_version,
                 end_date |-> end_date]
        tomorrow == now + 1
    IN  /\ forecast.phase # "loop"
        /\ \/ /\ \A i \in ModelRecords(model_version) : ~registry[i].loadable
              /\ forecast' = Failure(args, None, "No trained model available")
           \/ \E i \in ModelRecords(model_version) :
                 /\ registry[i].loadable
                 /\ forecast' =
                      IF featTable = <<>>
                      THEN Failure(args, None, "No feature data available")
                      ELSE IF end_date = BadDate
                      THEN Failure(args, tomorrow, "Invalid end date format")
                      ELSE IF end_date # None /\ HorizonFromEndDate(end_date, tomorrow) <= 0
                      THEN Failure(args, tomorrow, "End date must be after latest data date")
                      ELSE Frame("loop", args, registry[i].model_version, registry[i].rmse,
                                 IF end_date # None
                                 THEN HorizonFromEndDate(end_date, tomorrow)
                                 ELSE horizon_days,
                                 tomorrow, 0, SeedFeatures(LatestFeatures), <<>>, FALSE, "")
        /\ UNCHANGED <<petrol, macro, lastCall, pc, sess, registry, registered, featTable, now, predLog, dbDown, wf, files, saving>>

(* the forecast route: `if not end_date and horizon_days <= 0` answers 400, *)
(* every other request goes to generate_prediction                          *)
PredictRoute(horizon_days, model_version, end_date) ==
    IF end_date = None /\ horizon_days <= 0
    THEN /\ forecast.phase # "loop"
         /\ forecast' = Failure([horizon_days |-> horizon_days, model_version |-> model_version,
                                  end_date |-> end_date], None, "horizon_days must be positive")
         /\ UNCHANGED <<petrol, macro, lastCall, pc, sess, registry, registered, featTable, now, predLog, dbDown, wf, files, saving>>
    ELSE StartForecast(horizon_days, model_version, end_date)

(* X = np.array([[...]]): the 8 inputs of model.predict, in order *)
InputVector(f) ==
    <<f.petrol_price, f.lag_1, f.lag_2, f.lag_7, f.lag_14, f.rolling_7,
      f.crude_oil_price, f.inr_usd>>

(* mutant: the price is overwritten before lag_1 is taken from it *)
ForecastIteration_PriceFirst(raw) ==
    /\ forecast.phase = "loop"
    /\ forecast.day < forecast.horizon_days
    /\ LET f == forecast.features
           pred == Clamp(raw)
       IN  forecast' =
             [forecast EXCEPT
                !.x = InputVector(f),
                !.predictions = Append(@, [date |-> forecast.current_date,
                                           predicted_price |-> Round2(pred)]),
                !.features = [petrol_price |-> pred,
                              lag_1 |-> pred,
                              lag_2 |-> f.lag_1,
                              lag_7 |-> f.lag_2,
                              lag_14 |-> f.lag_7,
                              rolling_7 |-> [num |-> f.rolling_7.num * 6 + pred * f.rolling_7.den,
                                             den |-> f.rolling_7.den * 7],
                              crude_oil_price |-> f.crude_oil_price,
                              inr_usd |-> f.inr_usd],
                !.current_date = @ + 1,
                !.day = @ + 1]
    /\ UNCHANGED <<petrol, macro, lastCall, pc, sess, registry, registered, featTable, now, predLog, dbDown, wf, files, saving>>

(* mutant: current_date is not moved to the next day *)
ForecastIteration_SameDate(raw) ==
    /\ forecast.phase = "loop"
    /\ forecast.day < forecast.horizon_days
    /\ LET f == forecast.features
           pred == Clamp(raw)
       IN  forecast' =
             [forecast EXCEPT
                !.x = InputVector(f),
                !.predictions = Append(@, [date |-> forecast.current_date,
                                           predicted_price |-> Round2(pred)]),
                !.features = [petrol_price |-> pred,
                              lag_1 |-> f.petrol_price,
                              lag_2 |-> f.lag_1,
                              lag_7 |-> f.lag_2,
                              lag_14 |-> f.lag_7,
                              rolling_7 |-> [num |-> f.rolling_7.num * 6 + pred * f.rolling_7.den,
                                             den |-> f.rolling_7.den * 7],
                              crude_oil_price |-> f.crude_oil_price,
                              inr_usd |-> f.inr_usd],
                !.day = @ + 1]
    /\ UNCHANGED <<petrol, macro, lastCall, pc, sess, registry, registered, featTable, now, predLog, dbDown, wf, files, saving>>

(* one pass of `for day in range(horizon_days)`; raw is model.predict's output *)
ForecastIteration(raw) ==
    /\ forecast.phase = "loop"
    /\ forecast.day < forecast.horizon_days
    /\ LET f == forecast.features
           pred == Clamp(raw)
       IN  forecast' =
             [forecast EXCEPT
                !.x = InputVector(f),
                !.predictions = Append(@, [date |-> forecast.current_date,
                                           predicted_price |-> Round2(pred)]),
                !.features = [petrol_price |-> pred,
                              lag_1 |-> f.petrol_price,
                              lag_2 |-> f.lag_1,
                              lag_7 |-> f.lag_2,
                              lag_14 |-> f.lag_7,
                              rolling_7 |-> [num |-> f.rolling_7.num * 6 + pred * f.rolling_7.den,
                                             den |-> f.rolling_7.den * 7],
                              crude_oil_price |-> f.crude_oil_price,
                              inr_usd |-> f.inr_usd],
                !.current_date = @ + 1,
                !.day = @ + 1]
    /\ UNCHANGED <<petrol, macro, lastCall, pc, sess, registry, registered, featTable, now, predLog, dbDown, wf, files, saving>>

(* the loop is over: generate_forecast returns success and generate_prediction *)
(* logs the request's horizon_days with the predictions                        *)
FinishForecast ==
    /\ forecast.phase = "loop"
    /\ forecast.day >= forecast.horizon_days
    /\ forecast' = [forecast EXCEPT !.phase = "done", !.success = TRUE]
    /\ predLog' = Append(predLog, [horizon_days |-> forecast.args.horizon_days,
                                   model_version |-> forecast.model_version,
                                   predictions |-> forecast.predictions])
    /\ UNCHANGED <<petrol, macro, lastCall, pc, sess, registry, registered, featTable, now, dbDown, wf, files, saving>>

Tick ==
    /\ now < MaxNow
    /\ now' = now + 1
    /\ UNCHANGED <<petrol, macro, lastCall, pc, sess, registry, registered, featTable, predLog, forecast, dbDown, wf, files, saving>>

-----------------------------------------------------------------------------
(* The sequential specification: handlers run one at a time on a small store *)

(* train_new_model of src/backend/services/training_service.py, with     *)
(* train_model of src/ml_pipeline/train.py and evaluate_and_save of       *)
(* src/ml_pipeline/evaluate.py. One workflow per caller: the scheduled    *)
(* retraining job and the training route.                                 *)

MaxRuns == 2
MinTrainSamples == 10

NoMetrics == [rmse |-> None, mae |-> None, mape |-> None, r2 |-> None]

(* a workflow that has not started; before is a history field: the *)
(* registry rows at the moment the workflow started                 *)
NoWorkflow ==
    [phase |-> "idle", run |-> 0, model_version |-> NoVersion, rows |-> 0,
     training_samples |-> 0, metrics |-> NoMetrics, trainer |-> "none", success |-> FALSE,
     before |-> <<>>]

(* the workflows started so far are numbered 1, 2, ... *)
NextRun == 1 + MaxOf({wf[p].run : p \in Procs} \cup {0})

Running(p) == wf[p].phase \in {"assigned", "trained", "evaluated"}

(* MODEL_FOLDER / f"{model_version}.h5" *)
ModelPath(model_version) == "models/" \o model_version \o ".h5"

(* a file of the model folder is written in place: one file per name *)
WriteFile(fs, version, kind, run) ==
    {f \in fs : ~(f.version = version /\ f.kind = kind)}
        \cup {[version |-> version, kind |-> kind, run |-> run]}

HasFile(fs, version, kind) == \E f \in fs : f.version = version /\ f.kind = kind

(* split_idx = int(len(X) * 0.8) *)
SplitIdx(rows) == (rows * 4) \div 5

(* steps 0 to 2 and the version assignment. data_ok: the ETL and the  *)
(* feature stage both returned rows; otherwise the workflow returns a *)
(* failure before a version is assigned                               *)
StartTraining(p, data_ok, rows) ==
    /\ ~Running(p)
    /\ NextRun <= MaxRuns
    /\ wf' = [wf EXCEPT ![p] =
                IF data_ok
                THEN [NoWorkflow EXCEPT !.phase = "assigned", !.run = NextRun,
                                        !.model_version = GetNextVersion(registry),
                                        !.rows = rows, !.before = registry]
                ELSE [NoWorkflow EXCEPT !.phase = "done", !.run = NextRun,
                                        !.before = registry]]
    /\ lastCall' = IF data_ok
                   THEN Call("get_next_version", None, <<>>, GetNextVersion(registry),
                             <<None, None>>, "", TRUE, <<>>)
                   ELSE Call("run_etl", None, <<>>, "", <<None, None>>, "", TRUE, <<>>)
    /\ UNCHANGED <<petrol, macro, pc, sess, registry, registered, featTable, now, predLog, forecast, dbDown, files, saving>>

TrainerFails(rows, raise_at) ==
    rows = 0 \/ SplitIdx(rows) < MinTrainSamples \/ raise_at # "no"

(* mutant: the workflow goes on to the evaluation whatever the trainer returned *)
AfterTrainer_GoesOn(failed) == "trained"

(* if not training_result.get('success'): return training_result *)
AfterTrainer(failed) == IF failed THEN "done" ELSE "trained"

(* train_model and the check of its result. raise_at: "no", "fit" (an    *)
(* exception before the artifact is saved) or "scaler" (an exception     *)
(* between the save of the artifact and the save of the scaler)          *)
TrainModel(p, raise_at) ==
    LET w == wf[p]
        failed == TrainerFails(w.rows, raise_at)
        reached_save == w.rows # 0 /\ SplitIdx(w.rows) >= MinTrainSamples /\ raise_at # "fit"
        with_h5 == IF reached_save THEN WriteFile(files, w.model_version, "h5", w.run)
                   ELSE files
    IN  /\ w.phase = "assigned"
        /\ files' = IF reached_save /\ raise_at = "no"
                    THEN WriteFile(with_h5, w.model_version, "pkl", w.run)
                    ELSE with_h5
        /\ wf' = [wf EXCEPT ![p] = [w EXCEPT !.phase = AfterTrainer(failed),
                                             !.trainer = IF failed THEN "failed" ELSE "ok",
                                             !.training_samples = IF failed THEN 0
                                                                  ELSE SplitIdx(w.rows)]]
        /\ lastCall' = Call("train_model", None, <<>>, w.model_version, <<None, None>>, "",
                            ~failed, <<>>)
        /\ UNCHANGED <<petrol, macro, pc, sess, registry, registered, featTable, now, predLog, forecast, dbDown, saving>>

(* evaluate_model and the check of its result. raises: the metrics or    *)
(* the plots raise, before the registry is written                       *)
EvaluateModel(p, metrics, raises) ==
    LET w == wf[p]
    IN  /\ w.phase = "trained"
        /\ registry' = IF raises THEN registry
                       ELSE SaveMetrics(registry, w.model_version, metrics,
                                        ModelPath(w.model_version), w.training_samples)
        /\ registered' = IF raises THEN registered ELSE registered \cup {w.model_version}
        /\ wf' = [wf EXCEPT ![p] = [w EXCEPT !.phase = IF raises THEN "done" ELSE "evaluated",
                                             !.metrics = IF raises THEN NoMetrics ELSE metrics]]
        /\ lastCall' = [Call("evaluate_model", w.training_samples, <<>>, w.model_version,
                             <<None, None>>, ModelPath(w.model_version), ~raises, <<>>)
                            EXCEPT !.arg = metrics]
        /\ UNCHANGED <<petrol, macro, pc, sess, featTable, now, predLog, forecast, dbDown, files, saving>>

(* step 5: register_model, whose return value the workflow ignores, and *)
(* the success result                                                   *)
RegisterTrained(p) ==
    LET w == wf[p]
        loadable == HasFile(files, w.model_version, "h5") /\ HasFile(files, w.model_version, "pkl")
    IN  /\ w.phase = "evaluated"
        /\ registry' = RegisterRows(registry, w.model_version, ModelPath(w.model_version),
                                    w.metrics, w.training_samples, "combined", loadable)
        /\ registered' = registered \cup {w.model_version}
        /\ wf' = [wf EXCEPT ![p] = [w EXCEPT !.phase = "done", !.success = TRUE]]
        /\ lastCall' = [Call("register_model", w.training_samples, <<>>, w.model_version,
                             <<None, None>>, ModelPath(w.model_version),
                             ~HasVersion(registry, w.model_version), <<>>)
                            EXCEPT !.arg = w.metrics]
        /\ UNCHANGED <<petrol, macro, pc, sess, featTable, now, predLog, forecast, dbDown, files, saving>>

-----------------------------------------------------------------------------

Init ==
    /\ petrol = <<>>
    /\ macro = <<>>
    /\ lastCall = NoCall
    /\ pc = [p \in Procs |-> "idle"]
    /\ sess = [p \in Procs |-> NoRow]
    /\ registry = <<>>
    /\ registered = {}
    /\ featTable = <<>>
    /\ now = 0
    /\ predLog = <<>>
    /\ forecast = IdleFrame
    /\ dbDown = FALSE
    /\ wf = [p \in Procs |-> NoWorkflow]
    /\ files = {}
    /\ saving = NoSaving

RoomForRow == Len(petrol) + Len(macro) < MaxRows

IngestPetrolStep ==
    \E d \in Dates, in \in PetrolInputs :
        /\ RoomForRow \/ HasDate(petrol, d)
        /\ IngestPetrolPrice(d, in[1], in[2])

IngestMacroStep ==
    \E d \in Dates, in \in MacroInputs :
        /\ RoomForRow \/ HasDate(macro, d)
        /\ IngestMacroData(d, in[1], in[2], in[3])

ExtractStep == \E range \in Ranges, f \in SourceFilters : ExtractRawDataCall(range, f)

RunEtlStep == \E range \in Ranges, f \in SourceFilters : RunEtl(range, f)

Next == IngestPetrolStep \/ IngestMacroStep \/ ExtractStep \/ RunEtlStep

Spec == Init /\ [][Next]_vars

-----------------------------------------------------------------------------
(* The long-series specification: the daily job ingests one point per day, *)
(* then the ETL stage and feature engineering run on what was ingested.    *)

(* fetch_and_ingest_latest_data: today's scraped price, and today's macro *)
(* values when the feed returned any                                       *)
FetchAndIngestLatestData(date, price, macro_data) ==
    /\ petrol' = IF IngestPetrolInserted(date, price)
                 THEN Append(petrol, PetrolRow(date, price, "web_scraper"))
                 ELSE petrol
    /\ macro' = IF macro_data # <<>> /\ IngestMacroInserted(date)
                THEN Append(macro, MacroRow(date, macro_data[1], macro_data[2], "yahoo_finance"))
                ELSE macro
    /\ lastCall' = Call("fetch_and_ingest_latest_data", date, <<price>> \o macro_data, "",
                        <<None, None>>, "", IngestPetrolInserted(date, price), <<>>)
    /\ UNCHANGED <<pc, sess, registry, registered, featTable, now, predLog, forecast, dbDown, wf, files, saving>>

DailyPrices == {9500, 10250}

DailyMacro == {<<>>, <<8000, 8300>>}

NumChanges(table) ==
    Cardinality({i \in 2..Len(table) : table[i].petrol_price # table[i - 1].petrol_price})

DailyJobStep ==
    \E price \in DailyPrices, macro_data \in DailyMacro :
        /\ lastCall.op \in {"none", "fetch_and_ingest_latest_data"}
        /\ Len(petrol) < MaxDays
        /\ petrol # <<>> =>
              /\ (macro_data # <<>>) = (macro # <<>>)
              /\ price = petrol[Len(petrol)].petrol_price \/ NumChanges(petrol) < MaxChanges
        /\ FetchAndIngestLatestData(Len(petrol) + 1, price, macro_data)

RunEtlAllStep == RunEtl(<<None, None>>, "combined")

NextFeat == DailyJobStep \/ RunEtlAllStep \/ CreateAllFeaturesCall

SpecFeat == Init /\ [][NextFeat]_vars

-----------------------------------------------------------------------------
(* Data preparation: a history is uploaded, the daily job adds the days  *)
(* after it, and the prepare route runs with each data_source            *)

HistoryDays == MaxDays - 2

PetrolHistory(price) == [d \in 1..HistoryDays |-> PetrolRow(d, price, "file_upload")]

MacroHistory == [d \in 1..HistoryDays |-> MacroRow(d, 8000, 8300, "file_upload")]

UploadPetrolStep ==
    \E price \in DailyPrices : petrol = <<>> /\ IngestFromDataframe(PetrolHistory(price), "petrol")

UploadMacroStep == macro = <<>> /\ IngestFromDataframe(MacroHistory, "macro")

DailyAfterUploadStep ==
    \E price \in DailyPrices, macro_data \in DailyMacro :
        /\ petrol # <<>>
        /\ Len(petrol) < MaxDays
        /\ FetchAndIngestLatestData(Len(petrol) + 1, price, macro_data)

PrepareDataStep == \E data_source \in SourceFilters : PrepareData(data_source)

NextPrepare == UploadPetrolStep \/ UploadMacroStep \/ DailyAfterUploadStep \/ PrepareDataStep

SpecPrepare == Init /\ [][NextPrepare]_vars

-----------------------------------------------------------------------------
(* The forecast specification: models are registered, feature rows saved, *)
(* the clock advances and forecasts are requested, one request at a time  *)

ModelInputs == {<<"v1", 250, TRUE>>, <<"v2", 180, FALSE>>}

RequestVersions == {NoVersion, "v1", "v2"}

RawOutputs == {85000, 101234, 190000, NaN}

(* a lag column: the price `back` hundredths under lag_1, or missing *)
Earlier(lag, back) == IF lag = None THEN None ELSE lag - back

FeatureRowIn(date, price, lag, rolling, crude) ==
    [date |-> date, petrol_price |-> price, source |-> "web_scraper",
     crude_oil_price |-> crude, inr_usd |-> 8300,
     lag_1 |-> lag, lag_2 |-> Earlier(lag, 10), lag_7 |-> Earlier(lag, 20),
     lag_14 |-> Earlier(lag, 30), rolling_7 |-> rolling, target |-> price]

(* one-row frames for the latest date: every column present, or the lags, *)
(* the rolling mean and the crude price missing or zero                  *)
FeatureInputs == {<<FeatureRowIn(1, 9500, 9490, 66500, 8000)>>,
                  <<FeatureRowIn(1, 10250, None, None, 0)>>}

Quiet == forecast.phase # "loop"

RegisterStep ==
    \E m \in ModelInputs : Quiet /\ RegisterModel(m[1], m[2], m[3])

SaveFeaturesStep == \E df \in FeatureInputs : Quiet /\ SaveToDatabase(df)

TickStep == Quiet /\ Tick

(* (horizon_days, model_version, end_date) requests: each horizon with the *)
(* latest model, each version, and end dates from today on, as a bad date  *)
(* string, and with another horizon_days beside them                       *)
Requests ==
    ({0, 1, MaxHorizon} \X {NoVersion} \X {None})
    \cup ({1} \X RequestVersions \X {None})
    \cup ({0} \X {NoVersion} \X ({BadDate} \cup (now..(now + MaxHorizon))))
    \cup {<<MaxHorizon, NoVersion, now + 1>>}

StartForecastStep ==
    \E r \in Requests :
        /\ Len(predLog) < MaxLog
        /\ StartForecast(r[1], r[2], r[3])

PredictRouteStep ==
    \E r \in Requests :
        /\ Len(predLog) < MaxLog
        /\ PredictRoute(r[1], r[2], r[3])

(* model.predict calls so far: the logged predictions and the running loop's *)
PredictCalls ==
    SumSeq([e \in 1..Len(predLog) |-> Len(predLog[e].predictions)])
    + (IF forecast.phase = "loop" THEN forecast.day ELSE 0)

IterationStep ==
    \E raw \in RawOutputs : PredictCalls < MaxHorizon /\ ForecastIteration(raw)

NextForecast ==
    \/ RegisterStep
    \/ SaveFeaturesStep
    \/ TickStep
    \/ StartForecastStep
    \/ IterationStep
    \/ FinishForecast

SpecForecast == Init /\ [][NextForecast]_vars

(* the forecast engine behind its route, beside the callers of the service *)
NextRoute == NextForecast \/ PredictRouteStep

SpecRoute == Init /\ [][NextRoute]_vars

-----------------------------------------------------------------------------
(* the registry under training runs, registrations, deletions and queries *)

(* hand-given version ids; a training run takes the id get_next_version gives *)
VersionInputs == {"v1", "best"}

(* metrics dicts with model_path and training_samples *)
SaveInputs ==
    {<<[rmse |-> 500, mae |-> 200, mape |-> 300, r2 |-> 90], "models/a.h5", 100>>,
     <<[rmse |-> 200, mae |-> 500, mape |-> 300, r2 |-> 80], "models/b.h5", 120>>}

MetricRequests == MetricNames \cup {"r2"}

RoomForModel == NextStamp(registry) <= MaxStamp

SaveMetricsStep ==
    \E v \in VersionInputs \cup {GetNextVersion(registry)}, m \in SaveInputs :
        /\ HasVersion(registry, v) \/ RoomForModel
        /\ v \in VersionInputs \/ MaxOf(VersionNumbers(registry) \cup {0}) < MaxVersion
        /\ SaveMetricsToDatabase(v, m[1], m[2], m[3])

(* register_model with an empty metrics dict: metrics.get gives None *)
RegisterEmptyStep ==
    \E v \in VersionInputs : RoomForModel /\ RegisterModel(v, None, TRUE)

DeleteStep == \E v \in VersionInputs \cup registered : DeleteModel(v)

BestStep == \E metric \in MetricRequests : GetBestMetrics(metric)

NextRegistry ==
    \/ SaveMetricsStep
    \/ RegisterEmptyStep
    \/ DeleteStep
    \/ GetNextVersionCall
    \/ BestStep

SpecRegistry == Init /\ [][NextRegistry]_vars

-----------------------------------------------------------------------------
(* the feature table under persist calls *)

PersistPrices == {9500, 9875, 10250}

(* feature rows for every date, each with a price, its lags and its window sum *)
PersistRows ==
    {FeatureRowIn(d, p, Earlier(p, 10), RollingWindow * p, 8000) : d \in Dates, p \in PersistPrices}

(* frames of no, one and two rows; two rows may carry one date *)
PersistInputs ==
    {<<>>} \cup {<<r>> : r \in PersistRows} \cup {<<r, q>> : r \in PersistRows, q \in PersistRows}

PersistStep == \E df \in PersistInputs : SaveToDatabase(df)

NextPersist == PersistStep

SpecPersist == Init /\ [][NextPersist]_vars

-----------------------------------------------------------------------------
(* save_to_database step by step, with a reader between the steps *)

SavePrices == {9500, 9875}

SaveRows == {FeatureRowIn(d, p, Earlier(p, 10), RollingWindow * p, 8000) : d \in Dates, p \in SavePrices}

(* frames of up to three rows; rows may share a date *)
SaveFrames ==
    {<<>>} \cup {<<r>> : r \in SaveRows} \cup {<<r, q>> : r \in SaveRows, q \in SaveRows}
        \cup {<<r, q, t>> : r \in SaveRows, q \in SaveRows, t \in SaveRows}

BeginSaveStep == \E df \in SaveFrames : BeginSave(df)

NextSave == BeginSaveStep \/ SaveRow \/ CommitSave \/ LoadFromDatabase
SpecSave == Init /\ [][NextSave]_vars

-----------------------------------------------------------------------------
(* the raw tables under uploaded batches *)

(* upload rows: a price or a cell coerced to NaN, for every date *)
PetrolBatchRows == {PetrolRow(d, price, "file_upload") : d \in Dates, price \in {9500, NaN}}

MacroBatchRows == {MacroRow(d, 8000, 8300, "file_upload") : d \in Dates}

PetrolFrames ==
    {<<>>} \cup {<<r>> : r \in PetrolBatchRows}
           \cup {<<r, q>> : r \in PetrolBatchRows, q \in PetrolBatchRows}

MacroFrames ==
    {<<>>} \cup {<<r>> : r \in MacroBatchRows} \cup {<<r, q>> : r \in MacroBatchRows, q \in MacroBatchRows}

PetrolBatchStep == \E df \in PetrolFrames : IngestFromDataframe(df, "petrol")

MacroBatchStep == \E df \in MacroFrames : IngestFromDataframe(df, "macro")

OtherBatchStep == \E df \in MacroFrames : IngestFromDataframe(df, "auto")

(* ranges from the day before the first date to the day after the last, *)
(* in both orders                                                       *)
MissingDatesStep ==
    \E table_model \in {"petrol", "macro"}, start_date \in 0..(MaxDate + 1),
       end_date \in 0..(MaxDate + 1) :
        GetMissingDatesCall(table_model, start_date, end_date)

NextBatch == PetrolBatchStep \/ MacroBatchStep \/ OtherBatchStep \/ MissingDatesStep

SpecBatch == Init /\ [][NextBatch]_vars

-----------------------------------------------------------------------------
(* the transform stage on frames with repeated dates, any row order and *)
(* missing cells                                                        *)

CleanDates == 1..(MaxDate + 1)

(* (petrol_price, crude_oil_price, inr_usd) cells of a merged row *)
CleanCells == {<<9500, None, None>>, <<10250, 8000, 8300>>, <<None, 8100, 8450>>}

CleanRows ==
    {[date |-> d, petrol_price |-> c[1], source |-> "web_scraper", crude_oil_price |-> c[2],
      inr_usd |-> c[3]] : d \in CleanDates, c \in CleanCells}

CleanFrames ==
    {<<>>} \cup {<<r>> : r \in CleanRows} \cup (CleanRows \X CleanRows)
           \cup (CleanRows \X CleanRows \X CleanRows)

TransformStep == \E df \in CleanFrames : TransformCall(df)

NextClean == TransformStep

SpecClean == Init /\ [][NextClean]_vars

-----------------------------------------------------------------------------
(* the store operations with a database that can be unavailable *)

FaultPetrolStep ==
    \E d \in Dates : IngestPetrolPriceDb(d, 9500, "web_scraper")

FaultMacroStep ==
    \E d \in Dates : IngestMacroDataDb(d, 8000, 8300, "yahoo_finance")

FaultEtlStep == \E range \in Ranges, f \in SourceFilters : RunEtlDb(range, f)

(* a one-row frame, or none *)
FaultFrames == {<<>>, <<FeatureRowIn(1, 9500, 9490, 66500, 8000)>>}

FaultPersistStep == \E df \in FaultFrames : SaveToDatabaseDb(df)

FaultSaveMetricsStep ==
    \E m \in SaveInputs : SaveMetricsToDatabaseDb("v1", m[1], m[2], m[3])

FaultBestStep == GetBestMetricsDb("rmse")

NextFault ==
    \/ FaultPetrolStep
    \/ FaultMacroStep
    \/ FaultEtlStep
    \/ FaultPersistStep
    \/ FaultSaveMetricsStep
    \/ GetNextVersionDb
    \/ FaultBestStep
    \/ DbOutage

SpecFault == Init /\ [][NextFault]_vars

-----------------------------------------------------------------------------
(* Concurrent ingestion: two external triggers run ingest_petrol_price at   *)
(* once.  A call touches the database twice: the existence query, and the   *)
(* flush + COMMIT when the `with get_db_session()` block exits.             *)

(* try: with get_db_session(): existing = query.first(); if existing: return *)
(* False; session.add(new_record)                                           *)
BeginIngestPetrol(p, date, price, source) ==
    /\ pc[p] = "idle"
    /\ IF Existing(petrol, date)
       THEN /\ lastCall' = Call("ingest_petrol_price", date, <<price>>, source,
                                <<None, None>>, "", FALSE, <<>>)
            /\ UNCHANGED <<pc, sess>>
       ELSE /\ pc' = [pc EXCEPT ![p] = "added"]
            /\ sess' = [sess EXCEPT ![p] = PetrolRow(date, price, source)]
            /\ UNCHANGED lastCall
    /\ UNCHANGED <<petrol, macro, registry, registered, featTable, now, predLog, forecast, dbDown, wf, files, saving>>

(* return True leaves the with block: session.commit(); an IntegrityError   *)
(* is rolled back, re-raised and turned into return False                   *)
CommitIngestPetrol(p) ==
    /\ pc[p] = "added"
    /\ LET r == sess[p]
           fails == PetrolCommitFails(petrol, r.date, r.petrol_price)
       IN  /\ petrol' = IF fails THEN petrol ELSE Append(petrol, r)
           /\ lastCall' = Call("ingest_petrol_price", r.date, <<r.petrol_price>>, r.source,
                               <<None, None>>, "", ~fails, <<>>)
    /\ pc' = [pc EXCEPT ![p] = "idle"]
    /\ sess' = [sess EXCEPT ![p] = NoRow]
    /\ UNCHANGED <<macro, registry, registered, featTable, now, predLog, forecast, dbDown, wf, files, saving>>

BeginStep ==
    \E p \in Procs, d \in Dates, in \in PetrolInputs :
        /\ RoomForRow \/ HasDate(petrol, d)
        /\ BeginIngestPetrol(p, d, in[1], in[2])

CommitStep == \E p \in Procs : CommitIngestPetrol(p)

NextConc == BeginStep \/ CommitStep

SpecConc == Init /\ [][NextConc]_vars

-----------------------------------------------------------------------------
(* The training workflow, one run after the other, and two runs interleaved *)

TrainingRows == {0, 12, 13}
RaiseAts == {"no", "fit", "scaler"}
EvalMetrics == {m[1] : m \in SaveInputs}

NoneRunning == \A q \in Procs : ~Running(q)

StartStep == \E p \in Procs, ok \in BOOLEAN, rows \in TrainingRows : NoneRunning /\ StartTraining(p, ok, rows)
StartConcStep == \E p \in Procs, ok \in BOOLEAN, rows \in TrainingRows : StartTraining(p, ok, rows)
TrainModelStep == \E p \in Procs, r \in RaiseAts : TrainModel(p, r)
EvaluateModelStep == \E p \in Procs, m \in EvalMetrics, raises \in BOOLEAN : EvaluateModel(p, m, raises)
RegisterTrainedStep == \E p \in Procs : RegisterTrained(p)

NextTrain == StartStep \/ TrainModelStep \/ EvaluateModelStep \/ RegisterTrainedStep
SpecTrain == Init /\ [][NextTrain]_vars

NextTrainConc == StartConcStep \/ TrainModelStep \/ EvaluateModelStep \/ RegisterTrainedStep
SpecTrainConc == Init /\ [][NextTrainConc]_vars

-----------------------------------------------------------------------------
(* Claims *)

IsIngest(c) == c.op \in {"ingest_petrol_price", "ingest_macro_data"}

TableOf(op) == IF op = "ingest_petrol_price" THEN petrol ELSE macro

TableOfNext(op) == IF op = "ingest_petrol_price" THEN petrol' ELSE macro'

ValidValues(c) == c.op = "ingest_petrol_price" => c.vals[1] # None

RowOfCall(c) ==
    IF c.op = "ingest_petrol_price"
    THEN PetrolRow(c.date, c.vals[1], c.source)
    ELSE MacroRow(c.date, c.vals[1], c.vals[2], c.source)

(* C1: for either raw table, a call of ingest_point with valid value fields  *)
(* for a date with no record returns inserted = true, a call for a date that *)
(* has a record (so the second of two calls in a row) returns inserted =     *)
(* false, and after either call the table holds exactly one row for the date *)
C1_Step ==
    (IsIngest(lastCall') /\ lastCall' # lastCall /\ ValidValues(lastCall')) =>
        LET d == lastCall'.date
            before == TableOf(lastCall'.op)
            after == TableOfNext(lastCall'.op)
        IN  /\ lastCall'.ok = ~HasDate(before, d)
            /\ Len(RowsFor(after, d)) = 1
            /\ (/\ lastCall.op = lastCall'.op
                /\ lastCall.date = d
                /\ lastCall.ok) => ~lastCall'.ok

C1_IdempotentIngest == [][C1_Step]_vars

(* C1 witness: a second call for a date, with other values and provenance    *)
(* than the stored row, has returned false and the date has one row          *)
C1_Witness ==
    /\ lastCall.op = "ingest_petrol_price"
    /\ ~lastCall.ok
    /\ lastCall.vals[1] # None
    /\ Len(RowsFor(petrol, lastCall.date)) = 1
    /\ RowsFor(petrol, lastCall.date)[1] # RowOfCall(lastCall)

IsPrefix(s, t) == Len(s) <= Len(t) /\ SubSeq(t, 1, Len(s)) = s

(* C3: ingestion never updates or deletes a raw row: every step leaves the   *)
(* rows already stored as they are, a call that returns false changes        *)
(* nothing, and a call that returns true adds exactly the row it was given   *)
C3_Step ==
    /\ IsPrefix(petrol, petrol')
    /\ IsPrefix(macro, macro')
    /\ (IsIngest(lastCall') /\ lastCall' # lastCall) =>
          IF lastCall'.ok
          THEN TableOfNext(lastCall'.op) = Append(TableOf(lastCall'.op), RowOfCall(lastCall'))
          ELSE petrol' = petrol /\ macro' = macro

C3_NoUpdate == [][C3_Step]_vars

(* C3 witness: a call for a stored date with other values has left the row   *)
C3_Witness ==
    /\ lastCall.op = "ingest_macro_data"
    /\ ~lastCall.ok
    /\ Len(RowsFor(macro, lastCall.date)) = 1
    /\ RowsFor(macro, lastCall.date)[1] # RowOfCall(lastCall)

(* C2: while one call has passed the existence check for a date and has not  *)
(* committed, a second call for that date still passes the check and adds    *)
(* its own row (the check reads committed rows only); two calls that both    *)
(* hold a pending row for one date can both go on to the commit              *)
C2_CheckThenInsertNotAtomic ==
    \A p \in Procs, q \in Procs :
        (p # q /\ pc[p] = "added" /\ ~HasDate(petrol, sess[p].date)) =>
            /\ pc[q] = "idle" =>
                  ENABLED (/\ BeginIngestPetrol(q, sess[p].date, sess[p].petrol_price, "web_scraper")
                           /\ pc'[q] = "added")
            /\ (pc[q] = "added" /\ sess[q].date = sess[p].date) =>
                  (ENABLED CommitIngestPetrol(p) /\ ENABLED CommitIngestPetrol(q))

(* C2 witness: both calls found no record for the same absent date and both  *)
(* hold a row to insert                                                      *)
C2_Witness ==
    \E p \in Procs, q \in Procs :
        /\ p # q
        /\ pc[p] = "added" /\ pc[q] = "added"
        /\ sess[p].date = sess[q].date
        /\ ~HasDate(petrol, sess[p].date)

(* the rows of the petrol table the extraction selects *)
SelectedPetrol(range) == SelectSeq(petrol, LAMBDA r : InRange(r.date, range))

SelectedMacro(range) == SelectSeq(macro, LAMBDA r : InRange(r.date, range))

(* C7: with the 'all' filter extract returns one row per price date, N rows  *)
(* for N price rows; each row carries the exogenous fields of the exogenous  *)
(* record of its date, or nulls when there is none; a date with only an      *)
(* exogenous record does not appear                                          *)
C7_LeftJoin ==
    (lastCall.op = "extract_raw_data" /\ lastCall.filter = "combined") =>
        LET df == lastCall.df
            P == SelectedPetrol(lastCall.range)
            M == SelectedMacro(lastCall.range)
        IN  /\ Len(df) = Len(P)
            /\ \A i \in 1..Len(df) :
                  /\ df[i].date = P[i].date
                  /\ df[i].petrol_price = P[i].petrol_price
                  /\ IF HasDate(M, df[i].date)
                     THEN /\ df[i].crude_oil_price = RowsFor(M, df[i].date)[1].crude_oil_price
                          /\ df[i].inr_usd = RowsFor(M, df[i].date)[1].inr_usd
                     ELSE /\ df[i].crude_oil_price = None
                          /\ df[i].inr_usd = None
            /\ \A i \in 1..Len(df) : HasDate(P, df[i].date)

Present(df) ==
    \A i \in 1..Len(df) :
        /\ df[i].petrol_price # None
        /\ df[i].crude_oil_price # None
        /\ df[i].inr_usd # None

Ascending(df) == \A i \in 1..(Len(df) - 1) : df[i].date < df[i + 1].date

(* C4: for a series of L rows with ascending distinct dates and price and    *)
(* both exogenous fields present on every row, create_all_features returns   *)
(* max(0, L - 15) rows: the rows at positions 15 .. L-1, in order            *)
C4_TrimLaw ==
    (lastCall.op = "create_all_features" /\ Ascending(lastCall.arg) /\ Present(lastCall.arg)) =>
        LET L == Len(lastCall.arg)
            df == lastCall.df
        IN  /\ Len(df) = Max(0, L - 15)
            /\ \A i \in 1..Len(df) : df[i].date = lastCall.arg[14 + i].date

(* C4 witness: a series long enough to keep rows went through *)
C4_Witness ==
    /\ lastCall.op = "create_all_features"
    /\ Present(lastCall.arg)
    /\ Len(lastCall.arg) = 17
    /\ Len(lastCall.df) = 2

(* C5: 20 consecutive daily price points and no exogenous record, run_etl    *)
(* with the 'all' filter, then create_all_features: exactly 5 feature rows,  *)
(* each with lag_14 and target present                                       *)
C5_TwentyDays ==
    (/\ lastCall.op = "create_all_features"
     /\ Len(petrol) = 20
     /\ \A i \in 1..20 : petrol[i].date = i
     /\ macro = <<>>
     /\ lastCall.arg = RunEtlResult(<<None, None>>, "combined")) =>
        /\ Len(lastCall.df) = 5
        /\ \A i \in 1..Len(lastCall.df) :
              lastCall.df[i].lag_14 # None /\ lastCall.df[i].target # None

(* the position of date d in the date-sorted series S *)
PositionOf(S, d) == CHOOSE i \in 1..Len(S) : S[i].date = d

(* C6: the row returned for position i of the date-sorted input has lag_k =  *)
(* price at i-k for k in {1,2,7,14}, rolling_7 = mean of the prices at       *)
(* i-6..i, target = price at i+1; its lags and rolling mean are those        *)
(* computed from rows 1..i alone                                             *)
C6_FeatureValues ==
    lastCall.op = "create_all_features" =>
        LET S == SortByDate(lastCall.arg)
        IN  \A n \in 1..Len(lastCall.df) :
                LET r == lastCall.df[n]
                    i == PositionOf(S, r.date)
                    upto == AddFeatures(SubSeq(S, 1, i))[i]
                IN  /\ i > 14 /\ i < Len(S)
                    /\ r.lag_1 = S[i - 1].petrol_price
                    /\ r.lag_2 = S[i - 2].petrol_price
                    /\ r.lag_7 = S[i - 7].petrol_price
                    /\ r.lag_14 = S[i - 14].petrol_price
                    /\ r.rolling_7 = S[i].petrol_price + S[i - 1].petrol_price
                                     + S[i - 2].petrol_price + S[i - 3].petrol_price
                                     + S[i - 4].petrol_price + S[i - 5].petrol_price
                                     + S[i - 6].petrol_price
                    /\ r.target = S[i + 1].petrol_price
                    /\ r.petrol_price = S[i].petrol_price
                    /\ \A c \in NumericColumns \ {"target"} : r[c] = upto[c]

(* C6 witness: rows were returned from a series whose price changed inside   *)
(* the lag window of a returned row and again at its target                  *)
C6_Witness ==
    /\ lastCall.op = "create_all_features"
    /\ \E n \in 1..Len(lastCall.df) :
          /\ lastCall.df[n].lag_1 # lastCall.df[n].lag_2
          /\ lastCall.df[n].target # lastCall.df[n].petrol_price

(* the resolved version has no registry row *)
NoRegistryRow(model_version) ==
    IF model_version = NoVersion THEN registry = <<>> ELSE ~HasVersion(registry, model_version)

(* a step that starts a generate_prediction call *)
StartsForecast == forecast.phase # "loop" /\ forecast' # forecast

(* C8: a forecast whose resolved version has no registry row (no version and *)
(* an empty registry, or an unregistered version id) ends at once with the   *)
(* model-not-found failure, with no fallback, and writes no prediction log   *)
C8_Step ==
    (StartsForecast /\ NoRegistryRow(forecast'.args.model_version)) =>
        /\ forecast'.phase = "done"
        /\ ~forecast'.success
        /\ forecast'.error = "No trained model available"
        /\ forecast'.predictions = <<>>
        /\ predLog' = predLog

C8_ModelNotFound == [][C8_Step]_vars

(* C8 witness: an unregistered version was requested while another version  *)
(* is registered, and the request failed                                    *)
C8_Witness ==
    /\ forecast.phase = "done"
    /\ forecast.error = "No trained model available"
    /\ forecast.args.model_version # NoVersion
    /\ registry # <<>>
    /\ ~HasVersion(registry, forecast.args.model_version)
    /\ predLog = <<>>

(* C9: with T the wall-clock date, a model and a feature row available and   *)
(* end_date = T + n: for n >= 1 the forecast runs with horizon n from T + 1  *)
(* whatever horizon_days was passed and returns n predictions dated T + 1 .. *)
(* T + n (one, dated T + 1, for end_date = T + 1); for n <= 0 it fails with  *)
(* the date-range error                                                      *)
C9_Step ==
    /\ (/\ StartsForecast
        /\ forecast'.args.end_date \notin {None, BadDate}
        /\ forecast'.error \notin {"No trained model available", "No feature data available"}) =>
          LET n == forecast'.args.end_date - now
          IN  IF n >= 1
              THEN /\ forecast'.phase = "loop"
                   /\ forecast'.horizon_days = n
                   /\ forecast'.current_date = now + 1
                   /\ forecast'.day = 0
              ELSE /\ forecast'.phase = "done"
                   /\ ~forecast'.success
                   /\ forecast'.error = "End date must be after latest data date"
    /\ (forecast.phase = "loop" /\ forecast'.phase = "loop") =>
          forecast'.current_date - forecast'.day = forecast.current_date - forecast.day
    /\ (forecast.phase = "loop" /\ forecast'.phase = "done") =>
          /\ forecast'.success
          /\ Len(forecast'.predictions) = Max(0, forecast'.horizon_days)
          /\ \A k \in 1..Len(forecast'.predictions) :
                forecast'.predictions[k].date =
                    (forecast'.current_date - forecast'.day) + (k - 1)

C9_HorizonLaw == [][C9_Step]_vars

(* C9 witness: end_date = tomorrow with another horizon_days passed gave one *)
(* prediction, dated tomorrow                                                *)
C9_Witness ==
    /\ forecast.phase = "done"
    /\ forecast.success
    /\ forecast.args.end_date = now + 1
    /\ forecast.args.horizon_days # 1
    /\ Len(forecast.predictions) = 1
    /\ forecast.predictions[1].date = now + 1

InBand(x) == BandLow <= x /\ x <= BandHigh

(* C10: whatever the raw model output, every emitted predicted_price and the *)
(* price carried into the next step lie within [90.0, 150.0]                 *)
C10_ClampLaw ==
    /\ \A k \in 1..Len(forecast.predictions) :
          InBand(10 * forecast.predictions[k].predicted_price)
    /\ forecast.day >= 1 => InBand(forecast.features.petrol_price)
    /\ \A e \in 1..Len(predLog) : \A k \in 1..Len(predLog[e].predictions) :
          InBand(10 * predLog[e].predictions[k].predicted_price)

(* C10 witness: raw outputs above and below the band were emitted clamped *)
C10_Witness ==
    /\ forecast.day >= 2
    /\ \E k \in 1..Len(forecast.predictions) :
          10 * forecast.predictions[k].predicted_price = BandHigh
    /\ \E k \in 1..Len(forecast.predictions) :
          10 * forecast.predictions[k].predicted_price = BandLow

(* C11: a recursive step with clamped prediction p takes the state (price,   *)
(* lag_1, lag_2, lag_7, lag_14, rolling_7, crude, inr) to (p, price, lag_1,  *)
(* lag_2, lag_7, (rolling_7 * 6 + p) / 7, crude, inr), every right-hand      *)
(* value being the one held before the step, and the input vector of each    *)
(* step is the state the step before left, in that field order               *)
C11_Step ==
    (forecast.phase = "loop" /\ forecast'.phase = "loop" /\ forecast' # forecast) =>
        LET f == forecast.features
            g == forecast'.features
            p == g.petrol_price
        IN  /\ InBand(p)
            /\ forecast'.predictions[Len(forecast'.predictions)].predicted_price = Round2(p)
            /\ g.lag_1 = f.petrol_price
            /\ g.lag_2 = f.lag_1
            /\ g.lag_7 = f.lag_2
            /\ g.lag_14 = f.lag_7
            /\ g.rolling_7.num = f.rolling_7.num * 6 + p * f.rolling_7.den
            /\ g.rolling_7.den = f.rolling_7.den * 7
            /\ g.crude_oil_price = f.crude_oil_price
            /\ g.inr_usd = f.inr_usd
            /\ forecast'.x = <<f.petrol_price, f.lag_1, f.lag_2, f.lag_7, f.lag_14,
                               f.rolling_7, f.crude_oil_price, f.inr_usd>>

C11_StateShift == [][C11_Step]_vars

(* C11 witness: two steps were taken from a seed whose price and lags all   *)
(* differ, so the second input vector holds the first prediction            *)
C11_Witness ==
    /\ forecast.day = 2
    /\ forecast.x[1] = forecast.features.lag_1
    /\ forecast.x[1] # forecast.x[2]
    /\ forecast.features.lag_2 # forecast.features.lag_7
    /\ forecast.features.lag_7 # forecast.features.lag_14
    /\ forecast.features.petrol_price # forecast.features.lag_1

(* C12: a forecast that ends in success with resolved horizon h returns      *)
(* exactly h predictions, the k-th dated T + k with T the wall-clock date,   *)
(* whatever the date of the feature row it was seeded from                   *)
C12_Step ==
    (forecast' # forecast /\ forecast'.phase = "done" /\ forecast'.success) =>
        /\ Len(forecast'.predictions) = forecast'.horizon_days
        /\ \A k \in 1..Len(forecast'.predictions) : forecast'.predictions[k].date = now + k
        /\ now' = now

C12_DatesFromTomorrow == [][C12_Step]_vars

(* C12 witness: a two-day forecast whose seed row is dated tomorrow, so the  *)
(* dates do not continue from the data's last date                          *)
C12_Witness ==
    /\ forecast.phase = "done"
    /\ forecast.success
    /\ Len(forecast.predictions) = 2
    /\ featTable # <<>>
    /\ featTable[1].date = now + 1
    /\ forecast.predictions[1].date = featTable[1].date
    /\ forecast.predictions[2].date = now + 2


-----------------------------------------------------------------------------
(* C13 *)

(* an id of the form v<N>, and its N *)
IsVN(version) ==
    LET c == Chars(version) IN Len(c) >= 2 /\ c[1] = "v" /\ IsInt(Tail(c))

NumberOf(version) == ParseInt(Tail(Chars(version)))

NumbersInRegistry == {NumberOf(registry[i].model_version) : i \in {j \in 1..Len(registry) : IsVN(registry[j].model_version)}}

(* C13: next_version returns 'v' followed by the largest N among the ids of *)
(* the form v<N> in the registry plus one, or 'v1' when no id parses, and   *)
(* it never returns an id that was registered at any earlier time           *)
C13_Step ==
    (lastCall'.op = "get_next_version" /\ lastCall' # lastCall) =>
        /\ lastCall'.source = IF NumbersInRegistry = {} THEN "v1"
                              ELSE "v" \o ToString(MaxOf(NumbersInRegistry) + 1)
        /\ lastCall'.source \notin registered

C13_NeverReused == [][C13_Step]_vars

-----------------------------------------------------------------------------
(* C14 *)

IsBestCall(c) == c.op = "get_best_metrics"

RowOfVersion(version) == registry[CHOOSE i \in 1..Len(registry) : registry[i].model_version = version]

HasValue(r, metric) == MetricOf(r, metric) # None

Valued(metric) == {i \in 1..Len(registry) : HasValue(registry[i], metric)}

(* C14: for rmse, mae and mape, when some registered version has a value   *)
(* for the metric, best returns a version that has a value no greater     *)
(* than that of every other version with a value; best returns none only  *)
(* when the registry is empty                                             *)
C14_Step ==
    (IsBestCall(lastCall') /\ lastCall' # lastCall /\ lastCall'.filter \in MetricNames) =>
        LET metric == lastCall'.filter
            model  == lastCall'.df
        IN  /\ model = <<>> => registry = <<>>
            /\ Valued(metric) # {} =>
                  /\ model # <<>>
                  /\ HasValue(RowOfVersion(model[1].model_version), metric)
                  /\ \A i \in Valued(metric) :
                        MetricOf(RowOfVersion(model[1].model_version), metric)
                            <= MetricOf(registry[i], metric)

C14_BestIsMinimum == [][C14_Step]_vars

-----------------------------------------------------------------------------
(* C15 *)

(* what the caller of get_best_metrics sees *)
Outcome(c) == [status |-> c.date, message |-> c.source, success |-> c.ok, model |-> c.df]

(* the outcome of a call with a known metric on a registry without rows *)
NoModelsOutcome ==
    [status |-> BestResponse(GetBestModel("rmse", 0)).status,
     message |-> BestResponse(GetBestModel("rmse", 0)).message,
     success |-> BestResponse(GetBestModel("rmse", 0)).success,
     model |-> GetBestModel("rmse", 0)]

(* C15: best called with a metric other than rmse, mae or mape reports an *)
(* error its caller can tell apart from the outcome for a registry with   *)
(* no models, and selects no model by another metric                      *)
C15_Step ==
    (IsBestCall(lastCall') /\ lastCall' # lastCall /\ lastCall'.filter \notin MetricNames) =>
        /\ lastCall'.df = <<>>
        /\ Outcome(lastCall') # NoModelsOutcome

C15_UnknownMetricReported == [][C15_Step]_vars

-----------------------------------------------------------------------------
(* C16 *)

IsSaveCall(c) == c.op = "save_metrics_to_database"

UniqueVersions(reg) ==
    \A i, j \in 1..Len(reg) : reg[i].model_version = reg[j].model_version => i = j

(* C16: saving metrics for a version id already in the registry overwrites *)
(* the metrics, the artifact path and the sample count of its row in place *)
(* and adds no row; saving the same metrics again changes nothing; after   *)
(* any metric saves and registrations no two rows share a version id       *)
C16_Step ==
    /\ UniqueVersions(registry')
    /\ IsSaveCall(lastCall') =>
          LET v == lastCall'.source
              m == lastCall'.arg
          IN  /\ HasVersion(registry, v) =>
                    /\ Len(registry') = Len(registry)
                    /\ \A i \in 1..Len(registry) :
                          IF registry[i].model_version = v
                          THEN /\ registry'[i].model_version = v
                               /\ registry'[i].created_at = registry[i].created_at
                               /\ registry'[i].rmse = m.rmse /\ registry'[i].mae = m.mae
                               /\ registry'[i].mape = m.mape /\ registry'[i].r2 = m.r2
                               /\ registry'[i].model_path = lastCall'.filter
                               /\ registry'[i].training_samples = lastCall'.date
                          ELSE registry'[i] = registry[i]
              /\ SaveMetrics(registry', v, m, lastCall'.filter, lastCall'.date) = registry'

C16_UpsertByVersion == [][C16_Step]_vars

(* a save has overwritten the first of two rows with the values of the call *)
C16_Witness ==
    /\ IsSaveCall(lastCall)
    /\ Len(registry) = 2
    /\ registry[1].model_version = lastCall.source
    /\ registry[1].rmse = lastCall.arg.rmse
    /\ registry[1].model_path = lastCall.filter
    /\ registry[1].training_samples = lastCall.date
    /\ registry[2].model_path # lastCall.filter

-----------------------------------------------------------------------------
(* C17 *)

IsPersistCall(c) == c.op = "save_to_database"

(* the last row of the frame for a date, as persist writes it *)
LastFor(df, date) ==
    FeatureRecord(df[CHOOSE i \in 1..Len(df) :
                        df[i].date = date /\ \A j \in (i + 1)..Len(df) : df[j].date # date])

RowsOn(table, date) == {i \in 1..Len(table) : table[i].date = date}

(* C17: the feature table holds at most one row per date; persisting a    *)
(* table overwrites the fields of each row whose date exists with the new *)
(* values, inserts one row for each new date, and returns a row count     *)
(* equal to the number of rows of the input table                         *)
C17_Step ==
    IsPersistCall(lastCall') =>
        LET df == lastCall'.arg
        IN  /\ \A d \in DatesOf(featTable') : Cardinality(RowsOn(featTable', d)) = 1
            /\ \A d \in DatesOf(df) :
                  /\ Cardinality(RowsOn(featTable', d)) = 1
                  /\ \A i \in RowsOn(featTable', d) : featTable'[i] = LastFor(df, d)
            /\ \A i \in 1..Len(featTable) :
                  featTable[i].date \notin DatesOf(df) => featTable'[i] = featTable[i]
            /\ Len(featTable') = Cardinality(DatesOf(featTable) \cup DatesOf(df))
            /\ lastCall'.date = Len(df)

-----------------------------------------------------------------------------
(* C18 *)

IsBatchCall(c) == c.op = "ingest_from_dataframe"

(* the input rows whose date was stored beforehand or came earlier in the batch *)
DateAlreadyPresent(table, df) ==
    {i \in 1..Len(df) : HasDate(table, df[i].date) \/ \E j \in 1..(i - 1) : df[j].date = df[i].date}

BatchTable == IF lastCall'.source = "petrol" THEN petrol ELSE macro

BatchTableNext == IF lastCall'.source = "petrol" THEN petrol' ELSE macro'

(* C18: for a batch of kind petrol or macro, inserted + duplicates = total *)
(* = the number of input rows, inserted is the number of rows the call    *)
(* added to the store, and duplicates is the number of input rows whose   *)
(* date was already present in the store or earlier in the batch          *)
C18_Step ==
    (IsBatchCall(lastCall') /\ lastCall'.source \in {"petrol", "macro"}) =>
        LET df == lastCall'.arg
            inserted == lastCall'.vals[1]
            duplicates == lastCall'.vals[2]
        IN  /\ inserted + duplicates = lastCall'.date
            /\ lastCall'.date = Len(df)
            /\ inserted = Len(BatchTableNext) - Len(BatchTable)
            /\ duplicates = Cardinality(DateAlreadyPresent(BatchTable, df))

C18_BatchCounts == [][C18_Step]_vars

-----------------------------------------------------------------------------
(* C19 *)

IsMissingDatesCall(c) == c.op = "get_missing_dates"

StrictlyAscending(s) == \A i \in 1..(Len(s) - 1) : s[i] < s[i + 1]

(* C19: find_missing_dates(start, end) returns, ascending and without    *)
(* repeats, exactly the dates d with start <= d <= end that have no      *)
(* record in the given raw table; it is empty when start > end, and the  *)
(* store is not modified                                                 *)
C19_Step ==
    IsMissingDatesCall(lastCall') =>
        LET table == IF lastCall'.source = "petrol" THEN petrol ELSE macro
            start == lastCall'.range[1]
            end   == lastCall'.range[2]
            out   == lastCall'.vals
        IN  /\ StrictlyAscending(out)
            /\ {out[i] : i \in 1..Len(out)} = {d \in start..end : ~HasDate(table, d)}
            /\ start > end => out = <<>>
            /\ petrol' = petrol /\ macro' = macro /\ featTable' = featTable
            /\ registry' = registry

C19_MissingDates == [][C19_Step]_vars

(* a range around a stored date: the days before and after it are returned *)
C19_Witness ==
    /\ IsMissingDatesCall(lastCall)
    /\ lastCall.source = "petrol"
    /\ lastCall.range = <<0, MaxDate + 1>>
    /\ HasDate(petrol, 1)
    /\ Len(lastCall.vals) >= 2
    /\ lastCall.vals[1] = 0
    /\ lastCall.vals[2] = 2

-----------------------------------------------------------------------------
(* C20 *)

IsTransformCall(c) == c.op = "transform"

ValueColumns == {"petrol_price", "crude_oil_price", "inr_usd"}

(* the first row of the frame for a date: the one drop_duplicates keeps *)
Kept(df, date) == df[CHOOSE i \in 1..Len(df) : df[i].date = date /\ \A j \in 1..(i - 1) : df[j].date # date]

(* the dates up to `date` whose kept row has a value in the column *)
ValuedUpTo(df, date, col) == {d \in DatesOf(df) : d <= date /\ Kept(df, d)[col] # None}

(* the value of the nearest such date, or null when there is none *)
NearestEarlier(df, date, col) ==
    IF ValuedUpTo(df, date, col) = {} THEN None
    ELSE Kept(df, CHOOSE d \in ValuedUpTo(df, date, col) : \A e \in ValuedUpTo(df, date, col) : e <= d)[col]

(* C20: the output of clean has one row per date in ascending date order; *)
(* a cell that had a value keeps it, a cell that was missing holds the    *)
(* value of the nearest earlier row (by date, among the rows kept) with a *)
(* value in that column, and it is null only when no earlier row has one; *)
(* no value comes from a later row                                        *)
C20_CleanLaw ==
    IsTransformCall(lastCall) =>
        LET in  == lastCall.arg
            out == lastCall.df
        IN  /\ \A i \in 1..(Len(out) - 1) : out[i].date < out[i + 1].date
            /\ DatesOf(out) = DatesOf(in)
            /\ \A i \in 1..Len(out) : \A col \in ValueColumns :
                  out[i][col] = NearestEarlier(in, out[i].date, col)

(* an unsorted frame with a repeated date: the repeated row is dropped and *)
(* the missing price of the last date is the price of the date before it,  *)
(* not that of the first date; the leading crude price stays null          *)
C20_Witness ==
    /\ IsTransformCall(lastCall)
    /\ Len(lastCall.arg) = 3
    /\ Len(lastCall.df) = 2
    /\ lastCall.arg[1].date > lastCall.arg[2].date
    /\ lastCall.arg[1].petrol_price = None
    /\ lastCall.df[2].petrol_price = lastCall.arg[2].petrol_price
    /\ lastCall.arg[2].petrol_price # lastCall.arg[3].petrol_price
    /\ lastCall.df[1].crude_oil_price = None
    /\ lastCall.df[2].crude_oil_price # None

-----------------------------------------------------------------------------
(* C21 *)

(* the price records of the requested range and provenance filter *)
MatchingPetrol(range, filter) ==
    SelectSeq(petrol, LAMBDA r : InRange(r.date, range) /\ MatchesSource(r.source, filter))

(* a step of an operation: the availability of the database does not change *)
OperationStep == dbDown' = dbDown

(* C21: run_etl returns an empty series when no price record matches the *)
(* requested range and provenance filter, and a non-empty series whenever *)
(* at least one price record matches: an empty result always means 'no   *)
(* raw data', never a failure inside the pipeline                        *)
C21_Step ==
    (OperationStep /\ lastCall'.op = "run_etl") =>
        (lastCall'.df = <<>> <=> MatchingPetrol(lastCall'.range, lastCall'.filter) = <<>>)

C21_EmptyMeansNoData == [][C21_Step]_vars


(* C22: when the trainer step of a training workflow fails (no training   *)
(* data, fewer than 10 training rows, or an exception), the workflow ends *)
(* with a failure result, the registry holds exactly the rows it held     *)
(* when the workflow started, with no row for the assigned version, and   *)
(* the failed workflow takes no further step                              *)
C22_Step ==
    \A p \in Procs :
        /\ (wf[p].phase = "assigned" /\ wf'[p] # wf[p] /\ wf'[p].trainer = "failed")
              => /\ wf'[p].phase = "done"
                 /\ ~wf'[p].success
                 /\ registry' = wf[p].before
                 /\ ~HasVersion(registry', wf[p].model_version)
        /\ (wf[p].phase = "assigned" /\ wf'[p] # wf[p])
              => (wf'[p].trainer = "failed" <=> TrainerFails(wf[p].rows, "no") \/ ~lastCall'.ok)
        /\ (wf[p].phase = "done" /\ wf[p].trainer = "failed" /\ wf'[p] # wf[p])
              => wf'[p].run # wf[p].run

C22_FailedTrainerRegistersNothing == [][C22_Step]_vars

C22_Witness ==
    \E p \in Procs :
        /\ wf[p].phase = "done"
        /\ wf[p].trainer = "failed"
        /\ wf[p].rows = 12
        /\ registry # <<>>
        /\ lastCall.op = "train_model"


(* C26: in a successful run of the training workflow the register step    *)
(* inserts the row of the assigned version and returns success, and the   *)
(* registry then holds exactly one row for that version, carrying the     *)
(* artifact path, metrics, sample count and provenance passed to register *)
IsRegisterStep(p) == wf[p].phase = "evaluated" /\ wf'[p].phase = "done" /\ wf'[p].success

RowsOfVersion(reg, version) == SelectSeq(reg, LAMBDA r : r.model_version = version)

C26_Step ==
    \A p \in Procs :
        IsRegisterStep(p) =>
            /\ lastCall'.op = "register_model"
            /\ lastCall'.ok
            /\ ~HasVersion(registry, wf[p].model_version)
            /\ Len(RowsOfVersion(registry', wf[p].model_version)) = 1
            /\ LET r == RowsOfVersion(registry', wf[p].model_version)[1]
               IN  /\ r.model_path = ModelPath(wf[p].model_version)
                   /\ r.rmse = wf[p].metrics.rmse /\ r.mae = wf[p].metrics.mae
                   /\ r.mape = wf[p].metrics.mape /\ r.r2 = wf[p].metrics.r2
                   /\ r.training_samples = wf[p].training_samples
                   /\ r.data_source = "combined"

C26_RegisterInserts == [][C26_Step]_vars


(* C27: two training workflows that overlap in time never hold the same  *)
(* version id, and no workflow overwrites the artifact file, the scaler  *)
(* file or the registry metrics of a version written by another workflow *)
DistinctVersions ==
    \A p, q \in Procs :
        (p # q /\ Running(p) /\ Running(q)) => wf[p].model_version # wf[q].model_version

FilesKept ==
    \A f \in files :
        \E g \in files' : g.version = f.version /\ g.kind = f.kind /\ g.run = f.run

MetricsKept ==
    \A i \in 1..Len(registry) :
        \A p \in Procs :
            (wf'[p] # wf[p] /\ registry[i].model_version = wf[p].model_version
                /\ HasVersion(wf[p].before, registry[i].model_version) = FALSE
                /\ \E q \in Procs \ {p} : wf[q].model_version = registry[i].model_version
                                          /\ wf[q].phase \in {"evaluated", "done"}
                                          /\ wf[q].metrics # NoMetrics)
                => (registry'[i].rmse = registry[i].rmse /\ registry'[i].mae = registry[i].mae
                    /\ registry'[i].mape = registry[i].mape /\ registry'[i].r2 = registry[i].r2)

C27_Step == DistinctVersions' /\ FilesKept /\ MetricsKept

C27_NoSharedVersion == [][C27_Step]_vars


(* C23: when the persistence layer raises inside an ingestion, extraction, *)
(* feature-persist or registry operation, the stored tables are left as    *)
(* they were and the operation's result is none of its ordinary results:   *)
(* duplicate, no data, first version, no models                            *)
DuplicateResult(c) == c.op \in {"ingest_petrol_price", "ingest_macro_data"} /\ c.ok = FALSE

NoDataResult(c) == c.op = "run_etl" /\ c.df = <<>>

FirstVersionResult(c) == c.op = "get_next_version" /\ c.source = "v1"

NoModelsResult(c) == c.op = "get_best_metrics" /\ c.date = 404 /\ c.source = "No models found"

C23_Step ==
    (dbDown /\ OperationStep) =>
        /\ petrol' = petrol /\ macro' = macro /\ featTable' = featTable /\ registry' = registry
        /\ ~DuplicateResult(lastCall')
        /\ ~NoDataResult(lastCall')
        /\ ~FirstVersionResult(lastCall')
        /\ ~NoModelsResult(lastCall')

C23_FailuresAreDistinct == [][C23_Step]_vars


(* C24: one save_to_database call is all-or-nothing. While its loop runs  *)
(* the feature table is the table the call found, and that is what a      *)
(* concurrent load_from_database returns; at the end either every row of  *)
(* the frame is in the table or, when the write of any row fails, the     *)
(* table is the one the call found, with none of its inserts or updates   *)
InLoop == saving.phase = "loop"

C24_Step ==
    /\ (InLoop /\ saving'.phase = "loop") => featTable' = saving.before
    /\ (InLoop /\ lastCall' # lastCall /\ lastCall'.op = "load_from_database")
          => lastCall'.df = SortByDate(saving.before)
    /\ (InLoop /\ saving'.phase = "idle")
          => /\ featTable = saving.before
             /\ lastCall'.op = "save_to_database"
             /\ lastCall'.ok = ~SaveFails(saving.df)
             /\ featTable' = IF lastCall'.ok THEN Upsert(saving.before, saving.df)
                             ELSE saving.before
             /\ lastCall'.ok => \A i \in 1..Len(saving.df) : HasDate(featTable', saving.df[i].date)

C24_AllOrNothing == [][C24_Step]_vars

(* the loop has updated a stored row in its session and added rows, and *)
(* the commit will fail                                                 *)
C24_Witness ==
    /\ InLoop
    /\ saving.pos > Len(saving.df)
    /\ CommitFails(saving.view, saving.added)
    /\ saving.view # saving.before
    /\ saving.added # <<>>
    /\ featTable = saving.before
    /\ lastCall.op = "load_from_database"


(* C25: under every interleaving of concurrent ingest_petrol_price calls, *)
(* the committed price table never holds more than one row for a date,    *)
(* rows are never removed, and a call returns true only when the table    *)
(* held no row for its date and holds one afterwards: of the calls for    *)
(* one date at most one returns true                                      *)
C25_Step ==
    /\ \A d \in Dates : Len(RowsFor(petrol', d)) <= 1
    /\ IsPrefix(petrol, petrol')
    /\ (lastCall' # lastCall /\ lastCall'.op = "ingest_petrol_price" /\ lastCall'.ok)
          => /\ ~HasDate(petrol, lastCall'.date)
             /\ Len(RowsFor(petrol', lastCall'.date)) = 1
    /\ \A p \in Procs :
          (pc[p] = "added" /\ pc'[p] = "idle" /\ HasDate(petrol, sess[p].date))
              => (~lastCall'.ok /\ petrol' = petrol)

C25_OneRowOneTrue == [][C25_Step]_vars

(* one call has committed its row and returned true while another call *)
(* for the same date still holds its own row to insert                 *)
C25_Witness ==
    \E q \in Procs :
        /\ pc[q] = "added"
        /\ HasDate(petrol, sess[q].date)
        /\ sess[q].petrol_price # None
        /\ lastCall.op = "ingest_petrol_price"
        /\ lastCall.ok
        /\ lastCall.date = sess[q].date


(* C28: every prediction log entry written for a successful forecast    *)
(* records a horizon equal to the number of predictions it holds and to *)
(* the horizon_days of the forecast response, also when the horizon was *)
(* computed from end_date                                               *)
LogWritten == Len(predLog') = Len(predLog) + 1

C28_Step ==
    LogWritten =>
        LET e == predLog'[Len(predLog')]
        IN  /\ forecast'.success
            /\ e.predictions = forecast'.predictions
            /\ e.horizon_days = Len(e.predictions)
            /\ e.horizon_days = forecast'.horizon_days

C28_LoggedHorizon == [][C28_Step]_vars

(* C29: a forecast requested with horizon_days <= 0 and no end_date, by  *)
(* the route or by the prediction service called directly, never ends as *)
(* a success and never writes a prediction log entry                     *)
NoHorizon(args) == args.horizon_days <= 0 /\ args.end_date = None

C29_Step ==
    (forecast' # forecast /\ NoHorizon(forecast'.args)) =>
        (~forecast'.success /\ predLog' = predLog)

C29_NoHorizonRejected == [][C29_Step]_vars


(* C30: after a run of the ETL and feature stage has persisted its result, *)
(* the feature table holds exactly the rows that run computed: one row for *)
(* every date of the run's frame and no row for any other date             *)
IsPrepared(c) == c.op = "prepare_data" /\ c.ok /\ c.arg = TRUE

C30_Step ==
    (IsPrepared(lastCall') /\ (lastCall' # lastCall \/ featTable' # featTable)) =>
        /\ DatesOf(featTable') = DatesOf(lastCall'.df)
        /\ Len(featTable') = Len(lastCall'.df)

C30_OnlyThisRun == [][C30_Step]_vars

====
